---- MODULE Spec2Model ----
(***************************************************************************)
(* OptiResume: the resume enhancement transform (enhanceResume), the       *)
(* BuildCV page's upload / generate / print handlers, their API client,    *)
(* and the Node MCP server's tool-call handler.                            *)
(*                                                                         *)
(* Text is a sequence of characters; a character is a one-character        *)
(* string, or a token "U+XXXX" for a code point outside ASCII.             *)
(***************************************************************************)
EXTENDS Integers, Sequences, FiniteSets, TLC

VARIABLES
    enhIn, enhOut, enhRaised,
    resumeData, lastUsedTemplate, templates, loadingTemplates,
    uploading, generating, htmlPreview, localPath,
    uploadCall, uploadDone, generateCall, generateDone, printed,
    adPc, adCall, adRequest, adResponse, adResult

enhVars == <<enhIn, enhOut, enhRaised>>

uiVars == <<resumeData, lastUsedTemplate, templates, loadingTemplates,
            uploading, generating, htmlPreview, localPath,
            uploadCall, uploadDone, generateCall, generateDone, printed>>

adVars == <<adPc, adCall, adRequest, adResponse, adResult>>

vars == <<enhVars, uiVars, adVars>>

\* the value of a result that has not been produced yet
NoValue == [none |-> TRUE]

(***************************************************************************)
(* Bounds of the model                                                     *)
(***************************************************************************)
MaxSkills == 3
MaxParts == 2

(***************************************************************************)
(* JavaScript string primitives                                            *)
(***************************************************************************)
MinOf(S) == CHOOSE x \in S : \A y \in S : x <= y
MaxOf(S) == CHOOSE x \in S : \A y \in S : x >= y

Rep(c, n) == [i \in 1..n |-> c]

LowerLetters == <<"a", "b", "c", "d", "e", "f", "g", "h", "i", "j", "k", "l", "m", "n", "o", "p", "q", "r", "s", "t", "u", "v", "w", "x", "y", "z">>
UpperLetters == <<"A", "B", "C", "D", "E", "F", "G", "H", "I", "J", "K", "L", "M", "N", "O", "P", "Q", "R", "S", "T", "U", "V", "W", "X", "Y", "Z">>
Digits == {"0", "1", "2", "3", "4", "5", "6", "7", "8", "9"}
Digits10 == <<"1", "2", "3", "4", "5", "6", "7", "8", "9", "0">>

Range(s) == {s[i] : i \in 1..Len(s)}

\* \s of a JavaScript regular expression, and the characters trim() removes
Whitespace == {" ", "\t", "\n", "\r"}

\* \w of a JavaScript regular expression
IsWordChar(c) == c \in Range(LowerLetters) \cup Range(UpperLetters) \cup Digits \cup {"_"}

toUpperCaseChar(c) ==
    IF c \in Range(LowerLetters)
    THEN UpperLetters[CHOOSE i \in 1..26 : LowerLetters[i] = c]
    ELSE c

toLowerCaseChar(c) ==
    IF c \in Range(UpperLetters)
    THEN LowerLetters[CHOOSE i \in 1..26 : UpperLetters[i] = c]
    ELSE c

toLowerCase(s) == [i \in 1..Len(s) |-> toLowerCaseChar(s[i])]

trim(s) ==
    LET keep == {i \in 1..Len(s) : s[i] \notin Whitespace}
    IN  IF keep = {} THEN <<>> ELSE SubSeq(s, MinOf(keep), MaxOf(keep))

\* s.slice(0, n)
slice0(s, n) == IF Len(s) > n THEN SubSeq(s, 1, n) ELSE s

\* s.replace(/\s+/g, " "): every maximal run of whitespace becomes one space
\* (computed by halving the index range, which keeps the evaluation shallow)
RECURSIVE CompactRange(_, _, _)
CompactRange(s, lo, hi) ==
    IF lo > hi THEN <<>>
    ELSE IF lo = hi
         THEN IF s[lo] \notin Whitespace THEN <<s[lo]>>
              ELSE IF lo > 1 /\ s[lo - 1] \in Whitespace THEN <<>>
              ELSE <<" ">>
    ELSE LET mid == (lo + hi) \div 2
         IN  CompactRange(s, lo, mid) \o CompactRange(s, mid + 1, hi)

compactWhitespace(s) == CompactRange(s, 1, Len(s))

\* s.replace(/[.;:,\s]+$/g, "")
TrailingChars == {".", ";", ":", ","} \cup Whitespace

stripTrailing(s) ==
    LET keep == {i \in 1..Len(s) : s[i] \notin TrailingChars}
    IN  IF keep = {} THEN <<>> ELSE SubSeq(s, 1, MaxOf(keep))

\* parts.join(sep)
Join(parts, sep) ==
    LET F[i \in 0..Len(parts)] ==
            IF i = 0 THEN <<>>
            ELSE IF i = 1 THEN parts[1]
            ELSE F[i - 1] \o sep \o parts[i]
    IN  F[Len(parts)]

StartsWith(s, p) == Len(s) >= Len(p) /\ SubSeq(s, 1, Len(p)) = p

(***************************************************************************)
(* enhanceResume: skill dedup                                              *)
(***************************************************************************)
\* what toString() gives for a plain object
ObjectToString == <<"[", "o", "b", "j", "e", "c", "t", " ", "O", "b", "j", "e", "c", "t", "]">>

\* (s?.name || s)?.toString().trim().toLowerCase()
SkillKey(s) ==
    IF "name" \in DOMAIN s /\ s.name # <<>>
    THEN toLowerCase(trim(s.name))
    ELSE toLowerCase(trim(ObjectToString))

\* dedupeSkills with a seen set that forgets a key when it meets it again
dedupeSkillsToggling(skills) ==
    LET F[i \in 0..Len(skills)] ==
            IF i = 0 THEN [kept |-> <<>>, seen |-> {}]
            ELSE LET prev == F[i - 1]
                     n == SkillKey(skills[i])
                 IN  IF n = <<>> THEN prev
                     ELSE IF n \in prev.seen
                          THEN [kept |-> prev.kept, seen |-> prev.seen \ {n}]
                          ELSE [kept |-> Append(prev.kept, skills[i]),
                                seen |-> prev.seen \cup {n}]
    IN  F[Len(skills)].kept

\* clone.skills.filter(...) with the seen set
dedupeSkills(skills) ==
    LET F[i \in 0..Len(skills)] ==
            IF i = 0 THEN [kept |-> <<>>, seen |-> {}]
            ELSE LET prev == F[i - 1]
                     n == SkillKey(skills[i])
                 IN  IF n = <<>> \/ n \in prev.seen
                     THEN prev
                     ELSE [kept |-> Append(prev.kept, skills[i]),
                           seen |-> prev.seen \cup {n}]
    IN  F[Len(skills)].kept

(***************************************************************************)
(* enhanceResume: normalizeBullets                                         *)
(***************************************************************************)
strongVerbs == <<
    <<"L", "e", "d">>, <<"B", "u", "i", "l", "t">>, <<"I", "m", "p", "l", "e", "m", "e", "n", "t", "e", "d">>, <<"O", "p", "t", "i", "m", "i", "z", "e", "d">>, <<"D", "e", "s", "i", "g", "n", "e", "d">>,
    <<"A", "u", "t", "o", "m", "a", "t", "e", "d">>, <<"I", "m", "p", "r", "o", "v", "e", "d">>, <<"D", "e", "l", "i", "v", "e", "r", "e", "d">>, <<"M", "i", "g", "r", "a", "t", "e", "d">>, <<"R", "e", "f", "a", "c", "t", "o", "r", "e", "d">>,
    <<"D", "e", "p", "l", "o", "y", "e", "d">>, <<"M", "e", "n", "t", "o", "r", "e", "d">>, <<"A", "n", "a", "l", "y", "z", "e", "d">>, <<"A", "r", "c", "h", "i", "t", "e", "c", "t", "e", "d">>, <<"R", "e", "d", "u", "c", "e", "d">> >>

MaxBulletLen == 220
MaxBullets == 6

\* the marker appended to a truncated line, as the source file spells it
EllipsisMarker == <<"U+201A", "U+00C4", "U+00B6">>

\* the one-character alternatives of the split pattern
SplitChars == {"\n", "\r", "U+2022", "-", "U+2013", "U+2014"}
\* the three-character alternative of the split pattern
SplitSeq3 == <<"U+201A", "U+00C4", "U+00A2">>

\* the positions where the split pattern matches, with the match widths;
\* matches cannot overlap: no character of the three-character alternative
\* is a one-character alternative or starts the alternative again
SplitMatches(s) ==
    {<<i, 1>> : i \in {j \in 1..Len(s) : s[j] \in SplitChars}}
    \cup
    {<<i, 3>> : i \in {j \in 1..Len(s) - 2 : SubSeq(s, j, j + 2) = SplitSeq3}}

SortByPosition(M) ==
    [k \in 1..Cardinality(M) |->
        CHOOSE m \in M : Cardinality({x \in M : x[1] < m[1]}) = k - 1]

\* text.split(/\n|\r|...|\u2022|\-|\u2013|\u2014/): the pieces between
\* consecutive matches, empty pieces included
SplitBullets(s) ==
    LET ms == SortByPosition(SplitMatches(s))
        n == Len(ms)
        from(k) == IF k = 1 THEN 1 ELSE ms[k - 1][1] + ms[k - 1][2]
        to(k) == IF k = n + 1 THEN Len(s) ELSE ms[k][1] - 1
    IN  [k \in 1..n + 1 |-> SubSeq(s, from(k), to(k))]

\* hasVerb without the `\b` after the verb
hasVerbNoBoundary(t) ==
    \E k \in 1..Len(strongVerbs) :
        LET v == strongVerbs[k]
        IN  /\ Len(t) >= Len(v)
            /\ toLowerCase(SubSeq(t, 1, Len(v))) = toLowerCase(v)

\* /^(Led|Built|...|Reduced)\b/i.test(t)
hasVerb(t) ==
    \E k \in 1..Len(strongVerbs) :
        LET v == strongVerbs[k]
        IN  /\ Len(t) >= Len(v)
            /\ toLowerCase(SubSeq(t, 1, Len(v))) = toLowerCase(v)
            /\ (Len(t) = Len(v) \/ ~IsWordChar(t[Len(v) + 1]))

\* Bullet without the length check of its last line
BulletUntruncated(x, i) ==
    LET t1 == <<toUpperCaseChar(x[1])>> \o Tail(x)
        t2 == stripTrailing(t1)
        t3 == IF ~hasVerb(t2)
              THEN strongVerbs[(i % Len(strongVerbs)) + 1] \o <<" ">> \o t2
              ELSE t2
    IN  compactWhitespace(t3)

\* the callback of lines.map((x, i) => ...), i counted from 0
Bullet(x, i) ==
    LET t1 == <<toUpperCaseChar(x[1])>> \o Tail(x)
        t2 == stripTrailing(t1)
        t3 == IF ~hasVerb(t2)
              THEN strongVerbs[(i % Len(strongVerbs)) + 1] \o <<" ">> \o t2
              ELSE t2
        t4 == compactWhitespace(t3)
    IN  IF Len(t4) > MaxBulletLen
        THEN SubSeq(t4, 1, MaxBulletLen) \o EllipsisMarker
        ELSE t4

BulletLines(text) ==
    LET pieces == SplitBullets(text)
        trimmed == [i \in 1..Len(pieces) |-> trim(pieces[i])]
    IN  SelectSeq(trimmed, LAMBDA x : x # <<>>)

\* normalizeBullets without `.slice(0, 6)`
normalizeBulletsUncapped(text) ==
    LET lines == BulletLines(text)
        bullets == [i \in 1..Len(lines) |-> Bullet(lines[i], i - 1)]
    IN  Join(bullets, <<"\n">>)

normalizeBullets(text) ==
    LET lines == BulletLines(text)
        bullets == [i \in 1..Len(lines) |-> Bullet(lines[i], i - 1)]
    IN  Join(slice0(bullets, MaxBullets), <<"\n">>)

(***************************************************************************)
(* enhanceResume                                                           *)
(***************************************************************************)
impactPhrases == <<
    <<"d", "e", "l", "i", "v", "e", "r", " ", "m", "e", "a", "s", "u", "r", "a", "b", "l", "e", " ", "o", "u", "t", "c", "o", "m", "e", "s">>, <<"s", "h", "i", "p", " ", "r", "e", "l", "i", "a", "b", "l", "e", " ", "f", "e", "a", "t", "u", "r", "e", "s">>,
    <<"o", "p", "t", "i", "m", "i", "z", "e", " ", "p", "e", "r", "f", "o", "r", "m", "a", "n", "c", "e">>, <<"a", "u", "t", "o", "m", "a", "t", "e", " ", "w", "o", "r", "k", "f", "l", "o", "w", "s">>,
    <<"i", "m", "p", "r", "o", "v", "e", " ", "u", "s", "e", "r", " ", "e", "x", "p", "e", "r", "i", "e", "n", "c", "e">>, <<"s", "c", "a", "l", "e", " ", "s", "y", "s", "t", "e", "m", "s">> >>

MaxSummaryLen == 350
TopSkillCount == 6
DefaultRole == <<"E", "n", "g", "i", "n", "e", "e", "r">>

\* JSON.parse(JSON.stringify(data)): a structurally equal, separate value
JSONClone(data) == [f \in DOMAIN data |-> data[f]]

\* SkillLabel with the name trimmed
SkillLabelTrimmed(s) ==
    IF "name" \in DOMAIN s /\ s.name # <<>> THEN trim(s.name) ELSE ObjectToString

\* s?.name || s, as join() renders it
SkillLabel(s) ==
    IF "name" \in DOMAIN s /\ s.name # <<>> THEN s.name ELSE ObjectToString

\* { ...w, description: normalizeBullets(w?.description || "") }
EnhanceWork(w) ==
    [f \in DOMAIN w \cup {"description"} |->
        IF f = "description"
        THEN normalizeBullets(IF "description" \in DOMAIN w THEN w.description ELSE <<>>)
        ELSE w[f]]

\* Synthesized with the impact phrase picked by the role length alone
SynthesizedImpactByRole(clone) ==
    LET skills == IF "skills" \in DOMAIN clone THEN clone.skills ELSE <<>>
        topSkills == slice0([i \in 1..Len(skills) |-> SkillLabel(skills[i])], TopSkillCount)
        work == IF "workExperience" \in DOMAIN clone THEN clone.workExperience ELSE <<>>
        roleGuess == IF Len(work) > 0 /\ "title" \in DOMAIN work[1] /\ work[1].title # <<>>
                     THEN work[1].title
                     ELSE DefaultRole
        impact == impactPhrases[(Len(roleGuess) % Len(impactPhrases)) + 1]
    IN  <<"R", "e", "s", "u", "l", "t", "s", "-", "d", "r", "i", "v", "e", "n", " ">> \o roleGuess \o <<" ", "w", "i", "t", "h", " ", "s", "t", "r", "e", "n", "g", "t", "h", "s", " ", "i", "n", " ">>
            \o Join(topSkills, <<",", " ">>)
            \o <<".", " ", "P", "r", "o", "v", "e", "n", " ", "a", "b", "i", "l", "i", "t", "y", " ", "t", "o", " ">> \o impact \o <<".">>

\* the sentence built when the draft has no summary
Synthesized(clone) ==
    LET skills == IF "skills" \in DOMAIN clone THEN clone.skills ELSE <<>>
        topSkills == slice0([i \in 1..Len(skills) |-> SkillLabel(skills[i])], TopSkillCount)
        work == IF "workExperience" \in DOMAIN clone THEN clone.workExperience ELSE <<>>
        roleGuess == IF Len(work) > 0 /\ "title" \in DOMAIN work[1] /\ work[1].title # <<>>
                     THEN work[1].title
                     ELSE DefaultRole
        impact == impactPhrases[((Len(roleGuess) + Len(topSkills)) % Len(impactPhrases)) + 1]
    IN  <<"R", "e", "s", "u", "l", "t", "s", "-", "d", "r", "i", "v", "e", "n", " ">> \o roleGuess \o <<" ", "w", "i", "t", "h", " ", "s", "t", "r", "e", "n", "g", "t", "h", "s", " ", "i", "n", " ">>
            \o Join(topSkills, <<",", " ">>)
            \o <<".", " ", "P", "r", "o", "v", "e", "n", " ", "a", "b", "i", "l", "i", "t", "y", " ", "t", "o", " ">> \o impact \o <<".">>

\* `target.prop`: reading a property of undefined raises a TypeError
PlainRead(defined) == ~defined

\* OptionalRead with the `?.` written as `.`
OptionalReadUnchained(defined) == ~defined

\* `target?.prop`: gives undefined when target is undefined, never raises
OptionalRead(defined) == FALSE

\* Array.isArray(obj[f]): a field left out of the object is undefined
IsArray(obj, f) == f \in DOMAIN obj

\* whether a call enhanceResume(data) raises: the property reads of the
\* function body, each with the guard the code puts in front of it
EnhanceRaises(data) ==
    LET clone == JSONClone(data)
        hasSkills == IsArray(clone, "skills")
        hasWork == IsArray(clone, "workExperience")
        hasFirst == hasWork /\ Len(clone.workExperience) > 0
    IN  \/ hasSkills /\ PlainRead(hasSkills)        \* clone.skills.filter
        \/ hasWork /\ PlainRead(hasWork)            \* clone.workExperience.map
        \/ OptionalRead(hasWork)                    \* clone.workExperience?.[0]
        \/ OptionalRead(hasFirst)                   \* clone.workExperience?.[0]?.title

\* enhanceResume that builds the sentence whether or not a summary exists
enhanceResumeResynthesized(data) ==
    LET c0 == JSONClone(data)
        c1 == IF "skills" \in DOMAIN c0
              THEN [c0 EXCEPT !.skills = dedupeSkills(@)]
              ELSE c0
        c2 == IF "workExperience" \in DOMAIN c1
              THEN [c1 EXCEPT !.workExperience = [i \in 1..Len(@) |-> EnhanceWork(@[i])]]
              ELSE c1
        base == Synthesized(c2)
        summary == slice0(trim(compactWhitespace(base)), MaxSummaryLen)
    IN  [f \in DOMAIN c2 \cup {"summary"} |->
            IF f = "summary" THEN summary ELSE c2[f]]

\* enhanceResume without `.slice(0, 350)` on the summary
enhanceResumeUncut(data) ==
    LET c0 == JSONClone(data)
        c1 == IF "skills" \in DOMAIN c0
              THEN [c0 EXCEPT !.skills = dedupeSkills(@)]
              ELSE c0
        c2 == IF "workExperience" \in DOMAIN c1
              THEN [c1 EXCEPT !.workExperience = [i \in 1..Len(@) |-> EnhanceWork(@[i])]]
              ELSE c1
        base == IF "summary" \in DOMAIN c2 /\ c2.summary # <<>>
                THEN c2.summary
                ELSE Synthesized(c2)
        summary == trim(compactWhitespace(base))
    IN  [f \in DOMAIN c2 \cup {"summary"} |->
            IF f = "summary" THEN summary ELSE c2[f]]

enhanceResume(data) ==
    LET c0 == JSONClone(data)
        c1 == IF "skills" \in DOMAIN c0
              THEN [c0 EXCEPT !.skills = dedupeSkills(@)]
              ELSE c0
        c2 == IF "workExperience" \in DOMAIN c1
              THEN [c1 EXCEPT !.workExperience = [i \in 1..Len(@) |-> EnhanceWork(@[i])]]
              ELSE c1
        base == IF "summary" \in DOMAIN c2 /\ c2.summary # <<>>
                THEN c2.summary
                ELSE Synthesized(c2)
        summary == slice0(trim(compactWhitespace(base)), MaxSummaryLen)
    IN  [f \in DOMAIN c2 \cup {"summary"} |->
            IF f = "summary" THEN summary ELSE c2[f]]

(***************************************************************************)
(* Inputs of the enhancement transform                                     *)
(***************************************************************************)
SeqsUpTo(S, n) == UNION {[1..k -> S] : k \in 0..n}

SkillNames == { <<>>, <<" ">>, <<"R", "e", "a", "c", "t", " ">>, <<"r", "e", "a", "c", "t">>, <<"R", "E", "A", "C", "T">>, <<"G", "o">> }

\* skills carry their stable identifier, here the position in the list
SkillLists ==
    {[i \in 1..Len(names) |-> [id |-> i, name |-> names[i]]] :
        names \in SeqsUpTo(SkillNames, MaxSkills)}

DescriptionParts == {
    <<"l", "e", "d", " ", "t", "e", "a", "m", ".">>, <<"w", "r", "o", "t", "e", " ", " ", "c", "o", "d", "e", ";", " ">>, <<"l", "e", "d", "g", "e", "r">>, <<"-">>, <<"\n">>, <<"U+2022">>,
    Rep("x", MaxBulletLen - 4), Rep("x", MaxBulletLen - 3),
    <<"a", "\n", "b", "\n", "c", "\n", "d", "\n">> }

RECURSIVE Concat(_)
Concat(parts) == IF parts = <<>> THEN <<>> ELSE Head(parts) \o Concat(Tail(parts))

Descriptions == {Concat(ps) : ps \in SeqsUpTo(DescriptionParts, MaxParts)}

SummaryVals == { <<>>, <<" ", "S", "e", "n", "i", "o", "r", " ", " ", " ", "d", "e", "v", " ">>  }

TitleVals == { <<>>, <<"D", "e", "v", "e", "l", "o", "p", "e", "r">> }

FixedSkills == <<[id |-> 1, name |-> <<"R", "e", "a", "c", "t">>], [id |-> 2, name |-> <<"r", "e", "a", "c", "t">>]>>

\* summaries and titles longer than the summary limit
LongSummaryVals == { Rep("y", MaxSummaryLen + 1),
                     Rep("y", MaxSummaryLen - 1) \o <<" ", " ", "z", "z">> }

LongTitleVals == { Rep("T", MaxSummaryLen - 10) }

\* { ...r } with only the fields F present
Restrict(r, F) == [f \in F |-> r[f]]

\* work entries with an empty, a blank or no description
SparseWork == {
    <<>>,
    <<[id |-> 1]>>,
    <<[id |-> 1, title |-> <<"D", "e", "v", "e", "l", "o", "p", "e", "r">>, description |-> <<>>]>>,
    <<[id |-> 1, description |-> <<" ">>], [id |-> 2, description |-> <<"l", "e", "d", " ", "t", "e", "a", "m", ".">>]>> }

\* a skills list longer than the six the summary names
ManySkills == [i \in 1..TopSkillCount + 1 |-> [id |-> i, name |-> <<"s", Digits10[i]>>]]

\* drafts with fields left out
SparseInputs ==
    {Restrict([skills |-> sk, workExperience |-> w, summary |-> <<>>], F) :
        sk \in {<<>>, FixedSkills}, w \in SparseWork,
        F \in SUBSET {"skills", "workExperience", "summary"}}

EnhanceInputs ==
    {[skills |-> sk, workExperience |-> <<>>, summary |-> sm] :
        sk \in SkillLists, sm \in SummaryVals}
    \cup
    {[skills |-> FixedSkills,
      workExperience |-> <<[id |-> 1, title |-> ti, description |-> d]>>,
      summary |-> sm] :
        ti \in TitleVals, d \in Descriptions, sm \in SummaryVals}
    \cup
    {[skills |-> FixedSkills,
      workExperience |-> <<[id |-> 1, title |-> ti, description |-> <<>>]>>,
      summary |-> sm] :
        ti \in TitleVals \cup LongTitleVals, sm \in SummaryVals \cup LongSummaryVals}
    \cup SparseInputs
    \cup {[skills |-> ManySkills, workExperience |-> <<>>, summary |-> sm] : sm \in SummaryVals}

(***************************************************************************)
(* BuildCVPage: component state                                            *)
(*                                                                         *)
(* uploadCall / generateCall are the suspended handler invocations: the    *)
(* request they sent and the values of the render they were created in     *)
(* (a handler keeps seeing the resumeData of that render).  uploadDone /   *)
(* generateDone record what the last finished handler received and which   *)
(* toast it raised; printed is the document written to the print window.   *)
(***************************************************************************)
\* getBackendBaseUrl() in development mode
BackendBaseUrl == "http://localhost:8000"

FallbackTemplate == "modern.tex"

TemplateA == "billryan_basic.tex"
TemplateB == "minimal_clean.tex"

\* the catalogs GET /templates answers with
Catalogs == { <<>>, <<TemplateA, TemplateB>> }

\* the top-level fields of ResumeData the handlers read or write; education,
\* projects and certifications are carried like personalInfo
EmptyDraft ==
    [personalInfo |-> [name |-> <<>>],
     summary |-> <<>>,
     workExperience |-> <<>>,
     skills |-> <<>>,
     template |-> "",
     aiEnhancement |-> FALSE]

\* { ...base, ...over }
Spread(base, over) ==
    [f \in DOMAIN base \cup DOMAIN over |->
        IF f \in DOMAIN over THEN over[f] ELSE base[f]]

NoFields == [f \in {} |-> TRUE]

\* the `parsed` objects the Extraction Service answers with
ParsedVals == {
    [summary |-> <<"n", "e", "w">>, skills |-> FixedSkills],
    [template |-> ""],
    NoFields }

\* the JSON bodies of a successful /upload_resume or /upload_resume_path
\* answer: `parsed` is an object or missing, `error` a text or missing ("")
UploadBodies ==
    {[hasParsed |-> TRUE, parsed |-> p, error |-> ""] : p \in ParsedVals}
    \cup {[hasParsed |-> FALSE, parsed |-> NoFields, error |-> e] :
             e \in {"", "Unsupported file type"}}

ErrorTexts == {"", "boom"}
StatusText == "Internal Server Error"

\* what fetch() and reading the body can give
FetchRejected == [kind |-> "reject"]

HttpError(text) == [kind |-> "http", ok |-> FALSE, status |-> 500, text |-> text]

UploadResponses ==
    {FetchRejected}
    \cup {HttpError(t) : t \in ErrorTexts}
    \cup {[kind |-> "http", ok |-> TRUE, status |-> 200, validJson |-> TRUE, json |-> b] :
             b \in UploadBodies}
    \cup {[kind |-> "http", ok |-> TRUE, status |-> 200, validJson |-> FALSE,
           json |-> [hasParsed |-> FALSE, parsed |-> NoFields, error |-> ""]]}

HtmlVals == {"", "<div>OK</div>", "<div>v2</div>"}

GenerateResponses ==
    {FetchRejected}
    \cup {HttpError(t) : t \in ErrorTexts}
    \cup {[kind |-> "http", ok |-> TRUE, status |-> 200, body |-> h] : h \in HtmlVals}

TemplateResponses ==
    {FetchRejected}
    \cup {HttpError(t) : t \in ErrorTexts}
    \cup {[kind |-> "http", ok |-> TRUE, status |-> 200, templates |-> c] : c \in Catalogs}

NoToast == [title |-> "", description |-> <<>>]

Toast(title, description) == [title |-> title, description |-> description]

\* `${what} failed (${res.status}): ${text || res.statusText}`
FailedMessage(what, resp) ==
    <<what, resp.status, IF resp.text # "" THEN resp.text ELSE StatusText>>

\* the message of the TypeError a rejected fetch() carries
FetchErrorMessage == <<"Failed to fetch">>

(***************************************************************************)
(* API client                                                              *)
(***************************************************************************)
\* what an awaited client call gives: a value, or a thrown error
Returned(v) == [thrown |-> FALSE, value |-> v, message |-> <<>>]
Thrown(m) == [thrown |-> TRUE, value |-> NoValue, message |-> m]

Url(path) == [base |-> BackendBaseUrl, path |-> path]

\* uploadResume, from the answer on
uploadResume(resp) ==
    IF resp.kind = "reject" THEN Thrown(FetchErrorMessage)
    ELSE IF ~resp.ok THEN Thrown(FailedMessage("Upload", resp))
    ELSE IF ~resp.validJson THEN Thrown(<<"Unexpected token">>)
    ELSE Returned(resp.json)

\* uploadResumeByPath, from the answer on
uploadResumeByPath(resp) ==
    IF resp.kind = "reject" THEN Thrown(FetchErrorMessage)
    ELSE IF ~resp.ok THEN Thrown(FailedMessage("Upload-by-path", resp))
    ELSE IF ~resp.validJson THEN Thrown(<<"Unexpected token">>)
    ELSE Returned(resp.json)

\* generateResume that gives the Response object itself for an html request
generateResumeUnread(request, resp) ==
    IF resp.kind = "reject" THEN Thrown(FetchErrorMessage)
    ELSE IF ~resp.ok THEN Thrown(FailedMessage("Generation", resp))
    ELSE IF request.body.format = "pdf"
         THEN Returned([blob |-> resp.body])
         ELSE Returned("[object Response]")

\* generateResume without the `if (!res.ok)` block
generateResumeUnchecked(request, resp) ==
    IF resp.kind = "reject" THEN Thrown(FetchErrorMessage)
    ELSE IF request.body.format = "pdf"
         THEN Returned([blob |-> IF resp.ok THEN resp.body ELSE resp.text])
         ELSE Returned(IF resp.ok THEN resp.body ELSE resp.text)

\* generateResume, from the answer on
generateResume(request, resp) ==
    IF resp.kind = "reject" THEN Thrown(FetchErrorMessage)
    ELSE IF ~resp.ok THEN Thrown(FailedMessage("Generation", resp))
    ELSE IF request.body.format = "pdf"
         THEN Returned([blob |-> resp.body])
         ELSE Returned(resp.body)

\* listTemplates, from the answer on
listTemplates(resp) ==
    IF resp.kind = "reject" THEN Thrown(FetchErrorMessage)
    ELSE IF ~resp.ok THEN Thrown(FailedMessage("Templates fetch", resp))
    ELSE Returned([templates |-> resp.templates])

(***************************************************************************)
(* BuildCVPage: mount, edits                                               *)
(***************************************************************************)
\* the page right after mount: the draft cleared, the template catalog
\* requested, nothing in flight but that request
UiInit ==
    /\ resumeData = EmptyDraft
    /\ lastUsedTemplate = ""
    /\ templates = <<>>
    /\ loadingTemplates = TRUE
    /\ uploading = FALSE
    /\ generating = "null"
    /\ htmlPreview = ""
    /\ localPath = <<>>
    /\ uploadCall = NoValue
    /\ uploadDone = NoValue
    /\ generateCall = NoValue
    /\ generateDone = NoValue
    /\ printed = NoValue

\* the answer to the listTemplates() call of the mount effect
TemplatesLoaded ==
    /\ loadingTemplates
    /\ \E resp \in TemplateResponses :
          LET res == listTemplates(resp)
          IN  templates' = IF res.thrown THEN templates ELSE res.value.templates
    /\ loadingTemplates' = FALSE
    /\ UNCHANGED <<enhVars, adVars, resumeData, lastUsedTemplate, uploading, generating, htmlPreview,
                   localPath, uploadCall, uploadDone, generateCall, generateDone, printed>>

\* the effect on [lastUsedTemplate]
LastUsedTemplateEffect(draft, lastUsed) ==
    IF lastUsed # "" /\ draft.template = ""
    THEN Spread(draft, [template |-> lastUsed])
    ELSE draft

\* onValueChange of the template Select
SelectTemplate ==
    /\ ~loadingTemplates
    /\ \E k \in 1..Len(templates) :
          LET val == templates[k]
          IN  /\ lastUsedTemplate' = val
              /\ resumeData' = LastUsedTemplateEffect(Spread(resumeData, [template |-> val]), val)
    /\ UNCHANGED <<enhVars, adVars, templates, loadingTemplates, uploading, generating, htmlPreview,
                   localPath, uploadCall, uploadDone, generateCall, generateDone, printed>>

\* onCheckedChange of the AI Enhancement Switch
ToggleEnhancement ==
    /\ \E v \in BOOLEAN :
          /\ v # resumeData.aiEnhancement
          /\ resumeData' = Spread(resumeData, [aiEnhancement |-> v])
    /\ UNCHANGED <<enhVars, adVars, lastUsedTemplate, templates, loadingTemplates, uploading, generating,
                   htmlPreview, localPath, uploadCall, uploadDone, generateCall,
                   generateDone, printed>>

TypedSummaries == { <<>>, <<"o", "l", "d">> }

\* onChange of the summary Textarea
EditSummary ==
    /\ \E v \in TypedSummaries :
          /\ v # resumeData.summary
          /\ resumeData' = Spread(resumeData, [summary |-> v])
    /\ UNCHANGED <<enhVars, adVars, lastUsedTemplate, templates, loadingTemplates, uploading, generating,
                   htmlPreview, localPath, uploadCall, uploadDone, generateCall,
                   generateDone, printed>>

TypedNames == { <<>>, <<"A", "l">> }

\* onChange of the Name Input
EditName ==
    /\ \E v \in TypedNames :
          /\ v # resumeData.personalInfo.name
          /\ resumeData' = Spread(resumeData,
                [personalInfo |-> Spread(resumeData.personalInfo, [name |-> v])])
    /\ UNCHANGED <<enhVars, adVars, lastUsedTemplate, templates, loadingTemplates, uploading, generating,
                   htmlPreview, localPath, uploadCall, uploadDone, generateCall,
                   generateDone, printed>>

TypedPaths == { <<>>, <<" ">>, <<" ", "/", "c", "v", ".", "p", "d", "f">> }

\* onChange of the local path Input
EditLocalPath ==
    /\ \E v \in TypedPaths :
          /\ v # localPath
          /\ localPath' = v
    /\ UNCHANGED <<enhVars, adVars, resumeData, lastUsedTemplate, templates, loadingTemplates, uploading,
                   generating, htmlPreview, uploadCall, uploadDone, generateCall,
                   generateDone, printed>>

(***************************************************************************)
(* BuildCVPage: upload                                                     *)
(***************************************************************************)
Files == {"none", "cv.pdf"}

\* handleFileChange up to `await uploadResume(file)`
HandleFileChange ==
    /\ ~uploading
    /\ uploadCall = NoValue
    /\ \E file \in Files :
          IF file = "none"
          THEN UNCHANGED <<uploading, uploadCall, uploadDone>>
          ELSE /\ uploading' = TRUE
               /\ uploadCall' = [kind |-> "file",
                                 resumeData |-> resumeData,
                                 request |-> [url |-> Url("/upload_resume"),
                                              method |-> "POST",
                                              body |-> [file |-> file]]]
               /\ uploadDone' = NoValue
    /\ UNCHANGED <<enhVars, adVars, resumeData, lastUsedTemplate, templates, loadingTemplates, generating,
                   htmlPreview, localPath, generateCall, generateDone, printed>>

\* FileUploadToast without the `res?.parsed` test
FileUploadToastUnchecked(res) ==
    IF res.thrown THEN Toast("Upload failed", res.message)
    ELSE Toast("Resume uploaded", <<>>)

\* the toast handleFileChange raises
FileUploadToast(res) ==
    IF res.thrown THEN Toast("Upload failed", res.message)
    ELSE IF res.value.hasParsed
         THEN Toast("Resume uploaded", <<>>)
         ELSE Toast("No data found", <<>>)

\* handleFileChange from the answer on
FileUploadAnswered ==
    /\ uploadCall # NoValue
    /\ uploadCall.kind = "file"
    /\ \E resp \in UploadResponses :
          LET res == uploadResume(resp)
              shown == FileUploadToast(res)
          IN  /\ resumeData' = IF ~res.thrown /\ res.value.hasParsed
                               THEN Spread(uploadCall.resumeData, res.value.parsed)
                               ELSE resumeData
              /\ uploadDone' = [kind |-> "file", response |-> resp, toast |-> shown]
    /\ uploading' = FALSE
    /\ uploadCall' = NoValue
    /\ UNCHANGED <<enhVars, adVars, lastUsedTemplate, templates, loadingTemplates, generating,
                   htmlPreview, localPath, generateCall, generateDone, printed>>

\* ExtractViaLocalPath without the `if (!localPath.trim()) return`
ExtractViaLocalPathUnchecked ==
    /\ ~uploading
    /\ uploadCall = NoValue
    /\ uploading' = TRUE
    /\ uploadCall' = [kind |-> "path",
                      resumeData |-> resumeData,
                      request |-> [url |-> Url("/upload_resume_path"),
                                   method |-> "POST",
                                   body |-> [file_path |-> trim(localPath)]]]
    /\ uploadDone' = NoValue
    /\ UNCHANGED <<enhVars, adVars, resumeData, lastUsedTemplate, templates, loadingTemplates, generating,
                   htmlPreview, localPath, generateCall, generateDone, printed>>

\* onClick of "Extract via Local Path" up to `await uploadResumeByPath(...)`
ExtractViaLocalPath ==
    /\ ~uploading
    /\ uploadCall = NoValue
    /\ IF trim(localPath) = <<>>
       THEN UNCHANGED <<uploading, uploadCall, uploadDone>>
       ELSE /\ uploading' = TRUE
            /\ uploadCall' = [kind |-> "path",
                              resumeData |-> resumeData,
                              request |-> [url |-> Url("/upload_resume_path"),
                                           method |-> "POST",
                                           body |-> [file_path |-> trim(localPath)]]]
            /\ uploadDone' = NoValue
    /\ UNCHANGED <<enhVars, adVars, resumeData, lastUsedTemplate, templates, loadingTemplates, generating,
                   htmlPreview, localPath, generateCall, generateDone, printed>>

\* the toast the onClick of "Extract via Local Path" raises, if any
PathUploadToast(res) ==
    IF res.thrown THEN Toast("Path parse failed", res.message)
    ELSE IF res.value.hasParsed
         THEN Toast("Parsed from path", <<>>)
         ELSE IF res.value.error # ""
              THEN Toast("Path parse error", <<res.value.error>>)
              ELSE NoToast

\* onClick of "Extract via Local Path" from the answer on
PathUploadAnswered ==
    /\ uploadCall # NoValue
    /\ uploadCall.kind = "path"
    /\ \E resp \in UploadResponses :
          LET res == uploadResumeByPath(resp)
              shown == PathUploadToast(res)
          IN  /\ resumeData' = IF ~res.thrown /\ res.value.hasParsed
                               THEN Spread(uploadCall.resumeData, res.value.parsed)
                               ELSE resumeData
              /\ uploadDone' = [kind |-> "path", response |-> resp, toast |-> shown]
    /\ uploading' = FALSE
    /\ uploadCall' = NoValue
    /\ UNCHANGED <<enhVars, adVars, lastUsedTemplate, templates, loadingTemplates, generating,
                   htmlPreview, localPath, generateCall, generateDone, printed>>

(***************************************************************************)
(* BuildCVPage: generate, print                                            *)
(***************************************************************************)
\* ResolveTemplate with the catalog consulted before the last-used template
ResolveTemplateCatalogFirst(draft, lastUsed, catalog) ==
    IF draft.template # "" THEN draft.template
    ELSE IF Len(catalog) > 0 /\ catalog[1] # "" THEN catalog[1]
    ELSE IF lastUsed # "" THEN lastUsed
    ELSE FallbackTemplate

\* resumeData.template || lastUsedTemplate || templates[0] || "modern.tex"
ResolveTemplate(draft, lastUsed, catalog) ==
    IF draft.template # "" THEN draft.template
    ELSE IF lastUsed # "" THEN lastUsed
    ELSE IF Len(catalog) > 0 /\ catalog[1] # "" THEN catalog[1]
    ELSE FallbackTemplate

\* the object passed to enhanceResume after a call that writes to the
\* object itself instead of a clone
ArgumentAfterEnhanceInPlace(data) == enhanceResume(data)

\* the object passed to enhanceResume, after the call: enhanceResume writes
\* to its JSON clone only
ArgumentAfterEnhance(data) == data

GenerateRequest(payload) ==
    [url |-> Url("/generate_resume"), method |-> "POST", body |-> payload]

\* HandleGenerate with buttons that stay enabled while `generating` is set
HandleGenerateWhileBusy ==
    /\ \E format \in {"html", "pdf"} :
          LET payload ==
                  [template |-> ResolveTemplate(resumeData, lastUsedTemplate, templates),
                   data |-> IF resumeData.aiEnhancement
                            THEN enhanceResume(resumeData)
                            ELSE resumeData,
                   format |-> format]
          IN  /\ generating' = format
              /\ generateCall' = [flow |-> "generate",
                                   resumeData |-> resumeData,
                                   lastUsedTemplate |-> lastUsedTemplate,
                                   templates |-> templates,
                                   request |-> GenerateRequest(payload)]
    /\ resumeData' = IF resumeData.aiEnhancement
                     THEN ArgumentAfterEnhance(resumeData)
                     ELSE resumeData
    /\ generateDone' = NoValue
    /\ UNCHANGED <<enhVars, adVars, lastUsedTemplate, templates, loadingTemplates, uploading, htmlPreview,
                   localPath, uploadCall, uploadDone, printed>>

\* handleGenerate(format) up to `await generateResume(payload)`
HandleGenerate ==
    /\ generating = "null"
    /\ \E format \in {"html", "pdf"} :
          LET payload ==
                  [template |-> ResolveTemplate(resumeData, lastUsedTemplate, templates),
                   data |-> IF resumeData.aiEnhancement
                            THEN enhanceResume(resumeData)
                            ELSE resumeData,
                   format |-> format]
          IN  /\ generating' = format
              /\ generateCall' = [flow |-> "generate",
                                   resumeData |-> resumeData,
                                   lastUsedTemplate |-> lastUsedTemplate,
                                   templates |-> templates,
                                   request |-> GenerateRequest(payload)]
    /\ resumeData' = IF resumeData.aiEnhancement
                     THEN ArgumentAfterEnhance(resumeData)
                     ELSE resumeData
    /\ generateDone' = NoValue
    /\ UNCHANGED <<enhVars, adVars, lastUsedTemplate, templates, loadingTemplates, uploading, htmlPreview,
                   localPath, uploadCall, uploadDone, printed>>

\* handleGenerate from the answer on
GenerateAnswered ==
    /\ generateCall # NoValue
    /\ generateCall.flow = "generate"
    /\ \E resp \in GenerateResponses :
          LET res == generateResume(generateCall.request, resp)
              format == generateCall.request.body.format
          IN  /\ htmlPreview' = IF ~res.thrown /\ format # "pdf"
                                THEN res.value
                                ELSE htmlPreview
              /\ generateDone' =
                    [flow |-> "generate",
                     request |-> generateCall.request,
                     response |-> resp,
                     download |-> IF ~res.thrown /\ format = "pdf"
                                  THEN [name |-> "resume.pdf", blob |-> res.value.blob]
                                  ELSE NoValue,
                     toast |-> IF res.thrown THEN Toast("Generation failed", res.message)
                               ELSE IF format = "pdf" THEN Toast("PDF generated", <<>>)
                               ELSE Toast("Preview ready", <<>>)]
    /\ generating' = "null"
    /\ generateCall' = NoValue
    /\ UNCHANGED <<enhVars, adVars, resumeData, lastUsedTemplate, templates, loadingTemplates, uploading,
                   localPath, uploadCall, uploadDone, printed>>

\* the standalone document written to the print window
Printable(content) == [title |-> "Resume Preview", body |-> content]

\* window.open("", "_blank") gives a window, or null when it is blocked
WriteToWindow(opened, content) == IF opened THEN Printable(content) ELSE printed

\* HandlePrintHtml without the `if (!content)` test: it generates anew
\* whether or not a preview is cached
HandlePrintHtmlAlwaysGenerates ==
    /\ generating = "null"
    /\ LET payload ==
               [template |-> ResolveTemplate(resumeData, lastUsedTemplate, templates),
                data |-> resumeData,
                format |-> "html"]
       IN  /\ generating' = "html"
           /\ generateCall' = [flow |-> "print",
                                resumeData |-> resumeData,
                                lastUsedTemplate |-> lastUsedTemplate,
                                templates |-> templates,
                                request |-> GenerateRequest(payload)]
           /\ generateDone' = NoValue
           /\ UNCHANGED printed
    /\ UNCHANGED <<enhVars, adVars, resumeData, lastUsedTemplate, templates, loadingTemplates, uploading,
                   htmlPreview, localPath, uploadCall, uploadDone>>

\* handlePrintHtml up to `await generateResume(payload)`, or to its end when
\* a preview is cached
HandlePrintHtml ==
    /\ generating = "null"
    /\ IF htmlPreview # ""
       THEN /\ \E opened \in BOOLEAN : printed' = WriteToWindow(opened, htmlPreview)
            /\ UNCHANGED <<enhVars, adVars, generating, generateCall, generateDone>>
       ELSE LET payload ==
                    [template |-> ResolveTemplate(resumeData, lastUsedTemplate, templates),
                     data |-> resumeData,
                     format |-> "html"]
            IN  /\ generating' = "html"
                /\ generateCall' = [flow |-> "print",
                                     resumeData |-> resumeData,
                                     lastUsedTemplate |-> lastUsedTemplate,
                                     templates |-> templates,
                                     request |-> GenerateRequest(payload)]
                /\ generateDone' = NoValue
                /\ UNCHANGED printed
    /\ UNCHANGED <<enhVars, adVars, resumeData, lastUsedTemplate, templates, loadingTemplates, uploading,
                   htmlPreview, localPath, uploadCall, uploadDone>>

\* PrintAnswered with a catch block that leaves `generating` as it is
PrintAnsweredNoReset ==
    /\ generateCall # NoValue
    /\ generateCall.flow = "print"
    /\ \E resp \in GenerateResponses, opened \in BOOLEAN :
          LET res == generateResume(generateCall.request, resp)
          IN  /\ generating' = IF res.thrown THEN generating ELSE "null"
              /\ htmlPreview' = IF res.thrown THEN htmlPreview ELSE res.value
              /\ printed' = IF res.thrown THEN printed ELSE WriteToWindow(opened, res.value)
              /\ generateDone' =
                    [flow |-> "print",
                     request |-> generateCall.request,
                     response |-> resp,
                     download |-> NoValue,
                     toast |-> IF res.thrown THEN Toast("Print failed", res.message)
                               ELSE NoToast]
    /\ generateCall' = NoValue
    /\ UNCHANGED <<enhVars, adVars, resumeData, lastUsedTemplate, templates, loadingTemplates, uploading,
                   localPath, uploadCall, uploadDone>>

\* handlePrintHtml from the answer on
PrintAnswered ==
    /\ generateCall # NoValue
    /\ generateCall.flow = "print"
    /\ \E resp \in GenerateResponses, opened \in BOOLEAN :
          LET res == generateResume(generateCall.request, resp)
          IN  /\ htmlPreview' = IF res.thrown THEN htmlPreview ELSE res.value
              /\ printed' = IF res.thrown THEN printed ELSE WriteToWindow(opened, res.value)
              /\ generateDone' =
                    [flow |-> "print",
                     request |-> generateCall.request,
                     response |-> resp,
                     download |-> NoValue,
                     toast |-> IF res.thrown THEN Toast("Print failed", res.message)
                               ELSE NoToast]
    /\ generating' = "null"
    /\ generateCall' = NoValue
    /\ UNCHANGED <<enhVars, adVars, resumeData, lastUsedTemplate, templates, loadingTemplates, uploading,
                   localPath, uploadCall, uploadDone>>

(***************************************************************************)
(* MCP server: the CallToolRequestSchema handler                           *)
(*                                                                         *)
(* adCall is the tool call being handled, adRequest the request sent to    *)
(* the backend, adResponse what fetch() gave, adResult what the handler    *)
(* gave back to the protocol transport.                                    *)
(***************************************************************************)
MaxBodyLen == 3

\* process.env.FASTAPI_BASE_URL || 'http://localhost:8000'
FASTAPI_BASE_URL == "http://localhost:8000"

DefaultToolTemplate == "billryan_basic.tex"

ListTemplatesTool == <<"l", "i", "s", "t", "_", "t", "e", "m", "p", "l", "a", "t", "e", "s">>
ExtractResumeDataTool == <<"e", "x", "t", "r", "a", "c", "t", "_", "r", "e", "s", "u", "m", "e", "_", "d", "a", "t", "a">>
GenerateResumeHtmlTool == <<"g", "e", "n", "e", "r", "a", "t", "e", "_", "r", "e", "s", "u", "m", "e", "_", "h", "t", "m", "l">>
GenerateResumeTool == <<"g", "e", "n", "e", "r", "a", "t", "e", "_", "r", "e", "s", "u", "m", "e">>

ToolNames == {ListTemplatesTool, ExtractResumeDataTool, GenerateResumeHtmlTool,
              GenerateResumeTool, <<"d", "e", "l", "e", "t", "e", "_", "a", "l", "l">>}

\* the paths present on the server's file system
FileSystem == { <<"/", "c", "v", ".", "p", "d", "f">> }

\* existsSync that finds every path
existsSyncAnyPath(path) == TRUE

\* fs.existsSync(filePath)
existsSync(path) == path \in FileSystem

PathVals == { <<>>, <<"/", "c", "v", ".", "p", "d", "f">>, <<"/", "g", "o", "n", "e", ".", "p", "d", "f">> }

JsNull == [null |-> TRUE]

ResumeObject == [summary |-> <<"h", "i">>]

DataVals == {ResumeObject, JsNull}

FormatVals == { <<"p", "d", "f">>, <<"P", "D", "F">>, <<"h", "t", "m", "l">>, <<"d", "o", "c", "x">> }

\* the `arguments` objects of a call
ArgsVals ==
    {NoFields}
    \cup {[file_path |-> p] : p \in PathVals}
    \cup {[resume_data |-> d] : d \in DataVals}
    \cup {[resume_data |-> ResumeObject, template |-> t] : t \in {"", TemplateB}}
    \cup {[resume_data |-> ResumeObject, format |-> f] : f \in FormatVals}
    \cup {[format |-> f] : f \in {<<"p", "d", "f">>}}

\* request.params: `arguments` may be left out
ToolCalls ==
    {[name |-> n, hasArgs |-> TRUE, args |-> a] : n \in ToolNames, a \in ArgsVals}
    \cup {[name |-> n, hasArgs |-> FALSE, args |-> NoFields] : n \in ToolNames}

\* the bytes a backend answer is made of
ByteVals == {0, 37, 80, 123, 125, 255}

PdfSample == <<37, 80, 68, 70>>

Bodies == SeqsUpTo(ByteVals, MaxBodyLen) \cup {PdfSample}

AdapterResponses ==
    {FetchRejected}
    \cup {[kind |-> "http", ok |-> (st = 200), status |-> st, body |-> b] :
             st \in {200, 500}, b \in Bodies}

\* res.text(): the body decoded as UTF-8; a byte that is no UTF-8 decodes
\* to the replacement character
CharOfByte(b) ==
    CASE b = 0 -> "U+0000"
      [] b = 37 -> "%"
      [] b = 68 -> "D"
      [] b = 70 -> "F"
      [] b = 80 -> "P"
      [] b = 123 -> "{"
      [] b = 125 -> "}"
      [] OTHER -> "U+FFFD"

ResponseText(body) == [i \in 1..Len(body) |-> CharOfByte(body[i])]

\* res.json(): of the bodies above only "{}" is a JSON document
IsJson(body) == body = <<123, 125>>

\* JSON.stringify(data, null, 2) of the document res.json() gave
JsonStringify(body) == ResponseText(body)

Base64Alphabet ==
    <<"A", "B", "C", "D", "E", "F", "G", "H", "I", "J", "K", "L", "M", "N", "O", "P", "Q", "R", "S", "T", "U", "V", "W", "X", "Y", "Z", "a", "b", "c", "d", "e", "f", "g", "h", "i", "j", "k", "l", "m", "n", "o", "p", "q", "r", "s", "t", "u", "v", "w", "x", "y", "z", "0", "1", "2", "3", "4", "5", "6", "7", "8", "9", "+", "/">>

\* Base64Group that leaves the top bits of the third byte out of the
\* third character
Base64GroupLowBits(g) ==
    LET b1 == g[1]
        b2 == IF Len(g) >= 2 THEN g[2] ELSE 0
        b3 == IF Len(g) >= 3 THEN g[3] ELSE 0
        c1 == Base64Alphabet[(b1 \div 4) + 1]
        c2 == Base64Alphabet[((b1 % 4) * 16 + (b2 \div 16)) + 1]
        c3 == Base64Alphabet[((b2 % 16) * 4) + 1]
        c4 == Base64Alphabet[(b3 % 64) + 1]
    IN  IF Len(g) = 1 THEN <<c1, c2, "=", "=">>
        ELSE IF Len(g) = 2 THEN <<c1, c2, c3, "=">>
        ELSE <<c1, c2, c3, c4>>

\* the base64 characters of one group of 1, 2 or 3 bytes
Base64Group(g) ==
    LET b1 == g[1]
        b2 == IF Len(g) >= 2 THEN g[2] ELSE 0
        b3 == IF Len(g) >= 3 THEN g[3] ELSE 0
        c1 == Base64Alphabet[(b1 \div 4) + 1]
        c2 == Base64Alphabet[((b1 % 4) * 16 + (b2 \div 16)) + 1]
        c3 == Base64Alphabet[((b2 % 16) * 4 + (b3 \div 64)) + 1]
        c4 == Base64Alphabet[(b3 % 64) + 1]
    IN  IF Len(g) = 1 THEN <<c1, c2, "=", "=">>
        ELSE IF Len(g) = 2 THEN <<c1, c2, c3, "=">>
        ELSE <<c1, c2, c3, c4>>

\* buf.toString('base64')
RECURSIVE Base64Encode(_)
Base64Encode(bytes) ==
    IF bytes = <<>> THEN <<>>
    ELSE IF Len(bytes) <= 3 THEN Base64Group(bytes)
    ELSE Base64Group(SubSeq(bytes, 1, 3)) \o Base64Encode(SubSeq(bytes, 4, Len(bytes)))

PdfMarker == <<"P", "D", "F", "_", "B", "A", "S", "E", "6", "4", ":">>

\* { content: [{ type: 'text', text }] }
TextResult(text) == [content |-> <<[type |-> "text", text |-> text]>>]

\* { content: [{ type: 'text', text: `Error: ${error.message}` }], isError: true }
ErrorResult(message) ==
    [content |-> <<[type |-> "text", text |-> <<"E", "r", "r", "o", "r", ":", " ">> \o message]>>,
     isError |-> TRUE]

\* how the body of the try block ends, or where it is suspended
Return(result) == [kind |-> "return", result |-> result]
Throw(message) == [kind |-> "throw", message |-> message]
AwaitFetch(request) == [kind |-> "fetch", request |-> request]

\* the message of the TypeError for reading a property of undefined args
UndefinedArgsMessage == <<"C", "a", "n", "n", "o", "t", " ", "r", "e", "a", "d", " ", "p", "r", "o", "p", "e", "r", "t", "i", "e", "s", " ", "o", "f", " ", "u", "n", "d", "e", "f", "i", "n", "e", "d">>
\* the message of the error a rejected fetch() carries
FetchFailedMessage == <<"f", "e", "t", "c", "h", " ", "f", "a", "i", "l", "e", "d">>
\* the message of the error res.json() raises for a body that is no JSON
InvalidJsonMessage == <<"i", "n", "v", "a", "l", "i", "d", " ", "j", "s", "o", "n", " ", "r", "e", "s", "p", "o", "n", "s", "e", " ", "b", "o", "d", "y">>

Has(args, key) == key \in DOMAIN args

BackendUrl(path) == [base |-> FASTAPI_BASE_URL, path |-> path]

\* args.template || 'billryan_basic.tex'
ToolTemplate(args) ==
    IF Has(args, "template") /\ args.template # "" THEN args.template
    ELSE DefaultToolTemplate

\* ToolFormat without `.toLowerCase()`
ToolFormatCaseSensitive(args) ==
    IF Has(args, "format") /\ args.format # <<>> THEN args.format
    ELSE <<"h", "t", "m", "l">>

\* (args.format || 'html').toLowerCase()
ToolFormat(args) ==
    IF Has(args, "format") /\ args.format # <<>> THEN toLowerCase(args.format)
    ELSE <<"h", "t", "m", "l">>

\* createReadStream that gives the path text instead of the file's bytes
createReadStreamOfPathText(path) == [file_path |-> path]

\* fs.createReadStream(filePath): the bytes of the file at that path, sent
\* as the multipart part `file`
createReadStream(path) == [contentsOf |-> path]

\* the switch, up to the first await
ToolStart(call) ==
    LET args == call.args
    IN  IF call.name = ListTemplatesTool
        THEN AwaitFetch([url |-> BackendUrl("/templates"), method |-> "GET",
                         body |-> NoValue])
        ELSE IF call.name = ExtractResumeDataTool
        THEN IF ~call.hasArgs THEN Throw(UndefinedArgsMessage)
             ELSE IF ~Has(args, "file_path") \/ args.file_path = <<>>
                  THEN Throw(<<"f", "i", "l", "e", "_", "p", "a", "t", "h", " ", "i", "s", " ", "r", "e", "q", "u", "i", "r", "e", "d">>)
             ELSE IF ~existsSync(args.file_path)
                  THEN Throw(<<"f", "i", "l", "e", " ", "n", "o", "t", " ", "f", "o", "u", "n", "d", ":", " ">> \o args.file_path)
             ELSE AwaitFetch([url |-> BackendUrl("/upload_resume"), method |-> "POST",
                              body |-> [file |-> createReadStream(args.file_path)]])
        ELSE IF call.name = GenerateResumeHtmlTool
        THEN IF ~call.hasArgs THEN Throw(UndefinedArgsMessage)
             ELSE IF ~Has(args, "resume_data") \/ args.resume_data = JsNull
                  THEN Throw(<<"r", "e", "s", "u", "m", "e", "_", "d", "a", "t", "a", " ", "i", "s", " ", "r", "e", "q", "u", "i", "r", "e", "d">>)
             ELSE AwaitFetch([url |-> BackendUrl("/generate_resume"), method |-> "POST",
                              body |-> [template |-> ToolTemplate(args),
                                        data |-> args.resume_data,
                                        format |-> <<"h", "t", "m", "l">>]])
        ELSE IF call.name = GenerateResumeTool
        THEN IF ~call.hasArgs THEN Throw(UndefinedArgsMessage)
             ELSE IF ~Has(args, "resume_data") \/ args.resume_data = JsNull
                  THEN Throw(<<"r", "e", "s", "u", "m", "e", "_", "d", "a", "t", "a", " ", "i", "s", " ", "r", "e", "q", "u", "i", "r", "e", "d">>)
             ELSE AwaitFetch([url |-> BackendUrl("/generate_resume"), method |-> "POST",
                              body |-> [template |-> ToolTemplate(args),
                                        data |-> args.resume_data,
                                        format |-> ToolFormat(args)]])
        ELSE Throw(<<"U", "n", "k", "n", "o", "w", "n", " ", "t", "o", "o", "l", ":", " ">> \o call.name)

\* the switch, from the settled fetch() on
ToolFinish(call, request, resp) ==
    IF resp.kind = "reject" THEN Throw(FetchFailedMessage)
    ELSE IF call.name \in {ListTemplatesTool, ExtractResumeDataTool}
    THEN IF IsJson(resp.body)
         THEN Return(TextResult(JsonStringify(resp.body)))
         ELSE Throw(InvalidJsonMessage)
    ELSE IF call.name = GenerateResumeTool /\ request.body.format = <<"p", "d", "f">>
    THEN Return(TextResult(PdfMarker \o Base64Encode(resp.body)))
    ELSE Return(TextResult(ResponseText(resp.body)))

\* the handler without its catch block
TryWithoutCatch(outcome) == outcome

\* try { ... } catch (error) { return { ..., isError: true } }
TryCatch(outcome) ==
    IF outcome.kind = "throw" THEN Return(ErrorResult(outcome.message)) ELSE outcome

EnhQuiet == enhIn = NoValue /\ enhOut = NoValue /\ enhRaised = FALSE

AdInit ==
    /\ adPc = "idle"
    /\ adCall = NoValue
    /\ adRequest = NoValue
    /\ adResponse = NoValue
    /\ adResult = NoValue

\* a tool call arrives; the handler runs to its first await or to its end
CallTool ==
    /\ adPc = "idle"
    /\ \E call \in ToolCalls :
          LET outcome == TryCatch(ToolStart(call))
          IN  /\ adCall' = call
              /\ IF outcome.kind = "fetch"
                 THEN /\ adPc' = "awaitFetch"
                      /\ adRequest' = outcome.request
                      /\ adResult' = NoValue
                 ELSE /\ adPc' = "done"
                      /\ adRequest' = NoValue
                      /\ adResult' = outcome
    /\ adResponse' = NoValue
    /\ UNCHANGED <<enhVars, uiVars>>

\* fetch() settles; the handler runs to its end
FetchSettled ==
    /\ adPc = "awaitFetch"
    /\ \E resp \in AdapterResponses :
          /\ adResponse' = resp
          /\ adResult' = TryCatch(ToolFinish(adCall, adRequest, resp))
    /\ adPc' = "done"
    /\ UNCHANGED <<adCall, adRequest, enhVars, uiVars>>

\* the result went back to the client; the server waits for the next call
ResultSent ==
    /\ adPc = "done"
    /\ adPc' = "idle"
    /\ adCall' = NoValue
    /\ adRequest' = NoValue
    /\ adResponse' = NoValue
    /\ adResult' = NoValue
    /\ UNCHANGED <<enhVars, uiVars>>

AdapterNext ==
    \/ CallTool
    \/ FetchSettled
    \/ ResultSent

\* the server started, no call handled yet
AdapterInit ==
    /\ AdInit
    /\ UiInit
    /\ EnhQuiet

SpecAdapter == AdapterInit /\ [][AdapterNext]_vars

(***************************************************************************)
(* Specifications                                                          *)
(***************************************************************************)
EnhInit ==
    /\ enhIn \in EnhanceInputs
    /\ enhOut = NoValue
    /\ enhRaised = FALSE
    /\ UiInit
    /\ AdInit

\* one call enhanceResume(enhIn): it returns its result or raises
Enhance ==
    /\ enhOut = NoValue
    /\ ~enhRaised
    /\ IF EnhanceRaises(enhIn)
       THEN enhRaised' = TRUE /\ enhOut' = enhOut
       ELSE enhRaised' = FALSE /\ enhOut' = enhanceResume(enhIn)
    /\ UNCHANGED <<enhIn, uiVars, adVars>>

EnhNext == Enhance

SpecEnhance == EnhInit /\ [][EnhNext]_vars

\* the page while the user edits and uploads
UploadNext ==
    \/ TemplatesLoaded
    \/ SelectTemplate
    \/ ToggleEnhancement
    \/ EditSummary
    \/ EditName
    \/ EditLocalPath
    \/ HandleFileChange
    \/ FileUploadAnswered
    \/ ExtractViaLocalPath
    \/ PathUploadAnswered

\* the freshly mounted page
UploadInit ==
    /\ UiInit
    /\ EnhQuiet
    /\ AdInit

SpecUpload == UploadInit /\ [][UploadNext]_vars

\* the page after the user picked a template and uploaded two files, the
\* first parsed to a summary and skills, the second to an empty template
\* (a state SpecUpload reaches)
AfterUploads ==
    /\ resumeData = Spread(EmptyDraft, [summary |-> <<"n", "e", "w">>, skills |-> FixedSkills])
    /\ lastUsedTemplate = TemplateB
    /\ templates = <<TemplateA, TemplateB>>
    /\ loadingTemplates = FALSE
    /\ uploading = FALSE
    /\ generating = "null"
    /\ htmlPreview = ""
    /\ localPath = <<>>
    /\ uploadCall = NoValue
    /\ uploadDone = [kind |-> "file",
                     response |-> [kind |-> "http", ok |-> TRUE, status |-> 200,
                                   validJson |-> TRUE,
                                   json |-> [hasParsed |-> TRUE,
                                             parsed |-> [template |-> ""],
                                             error |-> ""]],
                     toast |-> Toast("Resume uploaded", <<>>)]
    /\ generateCall = NoValue
    /\ generateDone = NoValue
    /\ printed = NoValue

\* generation starts from the freshly mounted page or from the page after
\* uploads
GenerateInit ==
    /\ UiInit \/ AfterUploads
    /\ EnhQuiet
    /\ AdInit

\* the page while the user picks a template, toggles the enhancement,
\* previews, downloads and prints
GenerateNext ==
    \/ TemplatesLoaded
    \/ SelectTemplate
    \/ ToggleEnhancement
    \/ HandleGenerate
    \/ GenerateAnswered
    \/ HandlePrintHtml
    \/ PrintAnswered

SpecGenerate == GenerateInit /\ [][GenerateNext]_vars

\* the page's two upload entries and the tool-call handler, each up to the
\* point where its request leaves; no answer arrives in this specification
SendNext ==
    \/ EditLocalPath
    \/ HandleFileChange
    \/ ExtractViaLocalPath
    \/ CallTool
    \/ ResultSent

SendInit ==
    /\ UiInit
    /\ EnhQuiet
    /\ AdInit

SpecSend == SendInit /\ [][SendNext]_vars

\* the page while the user uploads, previews, downloads and prints
PageNext ==
    \/ EditLocalPath
    \/ HandleFileChange
    \/ FileUploadAnswered
    \/ ExtractViaLocalPath
    \/ PathUploadAnswered
    \/ HandleGenerate
    \/ GenerateAnswered
    \/ HandlePrintHtml
    \/ PrintAnswered

PageInit ==
    /\ UiInit
    /\ EnhQuiet
    /\ AdInit

\* every fetch() promise settles, resolved or rejected, and the handler
\* awaiting it then runs to its end
PageFairness ==
    /\ WF_vars(FileUploadAnswered)
    /\ WF_vars(PathUploadAnswered)
    /\ WF_vars(GenerateAnswered)
    /\ WF_vars(PrintAnswered)

SpecPage == PageInit /\ [][PageNext]_vars /\ PageFairness

(***************************************************************************)
(* Properties of the enhancement transform (checked under SpecEnhance)     *)
(***************************************************************************)
EnhanceDone == enhOut # NoValue

\* the skills and the work entries of a draft, none when the field is left out
SkillsOf(d) == IF "skills" \in DOMAIN d THEN d.skills ELSE <<>>
WorkOf(d) == IF "workExperience" \in DOMAIN d THEN d.workExperience ELSE <<>>

\* the key the skill invariant is stated with: trim + lowercase of the name
NameKey(s) == toLowerCase(trim(s.name))

\* C1: the skills returned by enhanceResume hold no two entries with the
\* same trimmed, lower-cased name; every kept entry is the first entry of
\* the input with its key; kept entries keep their relative input order.
C1_DedupFirstWins ==
    EnhanceDone =>
        LET in == SkillsOf(enhIn)
            out == SkillsOf(enhOut)
        IN  /\ \A i, j \in 1..Len(out) : i < j => NameKey(out[i]) # NameKey(out[j])
            /\ \A k \in 1..Len(out) :
                    \E p \in 1..Len(in) :
                        /\ in[p] = out[k]
                        /\ \A q \in 1..(p - 1) : NameKey(in[q]) # NameKey(in[p])
            /\ \A i, j \in 1..Len(out) : i < j => out[i].id < out[j].id

\* the lines of a description, as text.split("\n") gives them
OutputLines(text) ==
    LET breaks == {i \in 1..Len(text) : text[i] = "\n"}
        ends == breaks \cup {Len(text) + 1}
    IN  {SubSeq(text, IF \E b \in breaks : b < e
                      THEN MaxOf({b \in breaks : b < e}) + 1
                      ELSE 1,
                e - 1) : e \in ends}

AllOutputLines ==
    UNION {OutputLines(WorkOf(enhOut)[k].description) :
              k \in 1..Len(WorkOf(enhOut))}

\* C2 as stated: no line returned by normalizeBullets is longer than 220
\* characters, the ellipsis marker of a truncated line included.
C2_LinesWithin220 ==
    EnhanceDone => \A line \in AllOutputLines : Len(line) <= MaxBulletLen

\* C2 amended: a line returned by normalizeBullets holds at most 220
\* characters of the bullet; a truncated line is exactly those 220
\* characters followed by the ellipsis marker, which comes on top of them.
C2_LinesWithin220PlusMarker ==
    EnhanceDone =>
        \A line \in AllOutputLines :
            \/ Len(line) <= MaxBulletLen
            \/ /\ Len(line) = MaxBulletLen + Len(EllipsisMarker)
               /\ SubSeq(line, MaxBulletLen + 1, Len(line)) = EllipsisMarker

\* a bullet was truncated
C2_Witness ==
    EnhanceDone /\ \E line \in AllOutputLines : Len(line) > MaxBulletLen

\* the description of a work entry, empty when the field is left out
DescriptionOf(w) == IF "description" \in DOMAIN w THEN w.description ELSE <<>>

\* the lines of a text in order, as text.split("\n") gives them; no line
\* for the empty text
LineSeq(text) ==
    LET breaks == {i \in 1..Len(text) : text[i] = "\n"}
        n == Cardinality(breaks)
        brk(k) == CHOOSE b \in breaks : Cardinality({x \in breaks : x < b}) = k - 1
        from(k) == IF k = 1 THEN 1 ELSE brk(k - 1) + 1
        to(k) == IF k = n + 1 THEN Len(text) ELSE brk(k) - 1
    IN  IF text = <<>> THEN <<>>
        ELSE [k \in 1..n + 1 |-> SubSeq(text, from(k), to(k))]

\* the normalized candidate lines of a description, in input order
Candidates(text) ==
    LET lines == BulletLines(text)
    IN  [i \in 1..Len(lines) |-> Bullet(lines[i], i - 1)]

\* C16: normalizeBullets never returns more than 6 lines, and the lines it
\* returns are the first 6 normalized candidate lines in input order (all
\* of them when there are fewer); further lines are dropped, not an error.
C16_FirstSixLines ==
    EnhanceDone =>
        \A k \in 1..Len(WorkOf(enhIn)) :
            LET cand == Candidates(DescriptionOf(WorkOf(enhIn)[k]))
                out == LineSeq(WorkOf(enhOut)[k].description)
            IN  /\ Len(out) <= 6
                /\ Len(out) = IF Len(cand) < 6 THEN Len(cand) ELSE 6
                /\ \A i \in 1..Len(out) : out[i] = cand[i]

\* a description with more than 6 candidate lines came back with 6 lines
C16_Witness ==
    /\ EnhanceDone
    /\ \E k \in 1..Len(WorkOf(enhIn)) :
          /\ Len(Candidates(DescriptionOf(WorkOf(enhIn)[k]))) > 6
          /\ Len(LineSeq(WorkOf(enhOut)[k].description)) = 6

\* C17: the summary enhanceResume returns is never longer than 350
\* characters, whether it comes from an existing summary or is synthesized.
C17_SummaryWithin350 ==
    EnhanceDone => Len(enhOut.summary) <= 350

\* a synthesized summary was cut to 350 characters
C17_Witness ==
    /\ EnhanceDone
    /\ "summary" \in DOMAIN enhIn
    /\ enhIn.summary = <<>>
    /\ Len(Synthesized(enhIn)) > 350
    /\ Len(enhOut.summary) = 350

\* C18: the dedup step of enhanceResume, applied to its own output, gives
\* that output back, for every input skills list.
C18_DedupIdempotent ==
    EnhanceDone /\ "skills" \in DOMAIN enhIn =>
        /\ enhOut.skills = dedupeSkills(enhIn.skills)
        /\ dedupeSkills(enhOut.skills) = enhOut.skills

\* the dedup step dropped two of three skills that share a key
C18_Witness ==
    /\ EnhanceDone
    /\ "skills" \in DOMAIN enhIn
    /\ Len(enhIn.skills) = 3
    /\ Len(enhOut.skills) = 1

\* a line starts with one of the strong verbs as a word, in any letter case
StartsWithVerb(x) ==
    \E k \in 1..15 :
        LET v == strongVerbs[k]
        IN  /\ Len(x) >= Len(v)
            /\ toLowerCase(SubSeq(x, 1, Len(v))) = toLowerCase(v)
            /\ (Len(x) = Len(v) \/ ~IsWordChar(x[Len(v) + 1]))

\* a candidate line with its first letter capitalized and its trailing
\* punctuation removed
Stem(x) == stripTrailing(<<toUpperCaseChar(x[1])>> \o Tail(x))

\* whitespace compaction and the cut at 220 characters
Finished(t) ==
    LET c == compactWhitespace(t)
    IN  IF Len(c) > MaxBulletLen THEN SubSeq(c, 1, MaxBulletLen) \o EllipsisMarker ELSE c

\* C24: normalizeBullets puts a verb in front of a line exactly when the
\* line does not already start with one of the 15 strong verbs, and the
\* verb is strongVerbs[i mod 15], i being the position (from 0) of the line
\* among the trimmed, non-empty candidate lines.
C24_VerbPrependedByPosition ==
    EnhanceDone =>
        /\ Len(strongVerbs) = 15
        /\ \A k \in 1..Len(WorkOf(enhIn)) :
               LET lines == BulletLines(DescriptionOf(WorkOf(enhIn)[k]))
                   out == LineSeq(WorkOf(enhOut)[k].description)
               IN  \A n \in 1..Len(out) :
                       LET i == n - 1
                           verb == strongVerbs[(i % 15) + 1]
                       IN  IF StartsWithVerb(lines[n])
                           THEN out[n] = Finished(Stem(lines[n]))
                           ELSE out[n] = Finished(verb \o <<" ">> \o Stem(lines[n]))

\* a line starting with "led" stayed as it was and the line after it, at
\* position 1, got "Built"
C24_Witness ==
    /\ EnhanceDone
    /\ \E k \in 1..Len(WorkOf(enhIn)) :
          LET out == LineSeq(WorkOf(enhOut)[k].description)
          IN  /\ Len(out) >= 2
              /\ StartsWith(out[1], <<"L", "e", "d", " ", "t", "e", "a", "m">>)
              /\ out[2] = <<"B", "u", "i", "l", "t", " ", "B">>

NoSummary(d) == "summary" \notin DOMAIN d \/ d.summary = <<>>

IsLetter(c) == c \in Range(LowerLetters) \cup Range(UpperLetters)

\* every word of a text with its first letter in upper case and its other
\* letters in lower case
TitleCase(t) ==
    [i \in 1..Len(t) |->
        IF i = 1 \/ ~IsLetter(t[i - 1]) THEN toUpperCaseChar(t[i]) ELSE toLowerCaseChar(t[i])]

\* the first work entry's title, "Engineer" when there is none
RoleOf(d) ==
    IF Len(WorkOf(d)) > 0 /\ "title" \in DOMAIN WorkOf(d)[1] /\ WorkOf(d)[1].title # <<>>
    THEN WorkOf(d)[1].title
    ELSE <<"E", "n", "g", "i", "n", "e", "e", "r">>

\* the first 6 entries of a list
FirstSix(q) == IF Len(q) > 6 THEN SubSeq(q, 1, 6) ELSE q

\* 'Results-driven {role} with strengths in {skills}. Proven ability to
\* {impact}.'
Sentence(role, skills, impact) ==
    <<"R", "e", "s", "u", "l", "t", "s", "-", "d", "r", "i", "v", "e", "n", " ">> \o role \o <<" ", "w", "i", "t", "h", " ", "s", "t", "r", "e", "n", "g", "t", "h", "s", " ", "i", "n", " ">> \o skills
        \o <<".", " ", "P", "r", "o", "v", "e", "n", " ", "a", "b", "i", "l", "i", "t", "y", " ", "t", "o", " ">> \o impact \o <<".">>

\* whitespace runs collapsed, the ends trimmed, the cut at 350 characters
Normalized(t) ==
    LET c == trim(compactWhitespace(t))
    IN  IF Len(c) > 350 THEN SubSeq(c, 1, 350) ELSE c

ImpactOf(role, count) == impactPhrases[((Len(role) + count) % 6) + 1]

\* C25 as stated: with no summary in the draft, the synthesized summary
\* lists the titlecase of the first 6 post-dedup skill names, joined by
\* comma, in the 'with strengths in {skills}' position.
C25_SkillsListedInTitleCase ==
    EnhanceDone /\ NoSummary(enhIn) =>
        LET top == FirstSix(SkillsOf(enhOut))
            listed == Join([i \in 1..Len(top) |-> TitleCase(top[i].name)], <<",", " ">>)
        IN  enhOut.summary =
               Normalized(Sentence(RoleOf(enhIn), listed, ImpactOf(RoleOf(enhIn), Len(top))))

\* what the sentence shows for a skill: its name as stored, and the text
\* "[object Object]" for an entry kept with an empty name
ShownName(s) == IF s.name # <<>> THEN s.name ELSE ObjectToString

\* C25 amended: with no summary in the draft, the synthesized summary lists
\* the first 6 post-dedup skills by their names as stored, in no other
\* letter case, joined by ", ", in the 'with strengths in {skills}'
\* position; an entry kept with an empty name shows as "[object Object]".
C25_SkillsListedAsStored ==
    EnhanceDone /\ NoSummary(enhIn) =>
        LET top == FirstSix(SkillsOf(enhOut))
            listed == Join([i \in 1..Len(top) |-> ShownName(top[i])], <<",", " ">>)
        IN  enhOut.summary =
               Normalized(Sentence(RoleOf(enhIn), listed, ImpactOf(RoleOf(enhIn), Len(top))))

\* a draft with seven skills in lower case got a summary that names the
\* first six, in lower case
C25_Witness ==
    /\ EnhanceDone
    /\ NoSummary(enhIn)
    /\ Len(SkillsOf(enhOut)) = 7
    /\ enhOut.summary = <<"R", "e", "s", "u", "l", "t", "s", "-", "d", "r", "i", "v", "e", "n", " ", "E", "n", "g", "i", "n", "e", "e", "r", " ", "w", "i", "t", "h", " ", "s", "t", "r", "e", "n", "g", "t", "h", "s", " ", "i", "n", " ", "s", "1", ",", " ", "s", "2", ",", " ", "s", "3", ",", " ", "s", "4", ",", " ", "s", "5", ",", " ", "s", "6", ".", " ", "P", "r", "o", "v", "e", "n", " ", "a", "b", "i", "l", "i", "t", "y", " ", "t", "o", " ", "o", "p", "t", "i", "m", "i", "z", "e", " ", "p", "e", "r", "f", "o", "r", "m", "a", "n", "c", "e", ".">>

\* C26: with no summary in the draft the summary is 'Results-driven {role}
\* with strengths in {skills}. Proven ability to {impact}.', role being the
\* first work entry's title or 'Engineer', impact being
\* impactPhrases[(length of role + number of top skills) mod 6], the whole
\* whitespace-normalized and cut to 350 characters.
C26_SynthesizedSentence ==
    EnhanceDone /\ NoSummary(enhIn) =>
        LET work == WorkOf(enhIn)
            titled == Len(work) > 0 /\ "title" \in DOMAIN work[1] /\ work[1].title # <<>>
            role == IF titled THEN work[1].title ELSE <<"E", "n", "g", "i", "n", "e", "e", "r">>
            top == FirstSix(SkillsOf(enhOut))
            impact == impactPhrases[((Len(role) + Len(top)) % 6) + 1]
            sentence == <<"R", "e", "s", "u", "l", "t", "s", "-", "d", "r", "i", "v", "e", "n", " ">> \o role \o <<" ", "w", "i", "t", "h", " ", "s", "t", "r", "e", "n", "g", "t", "h", "s", " ", "i", "n", " ">>
                        \o Join([i \in 1..Len(top) |-> ShownName(top[i])], <<",", " ">>)
                        \o <<".", " ", "P", "r", "o", "v", "e", "n", " ", "a", "b", "i", "l", "i", "t", "y", " ", "t", "o", " ">> \o impact \o <<".">>
            compact == trim(compactWhitespace(sentence))
        IN  /\ Len(impactPhrases) = 6
            /\ enhOut.summary = IF Len(compact) > 350 THEN SubSeq(compact, 1, 350) ELSE compact

\* a draft with the title Developer and one skill after dedup got the
\* sentence with the impact phrase at (9 + 1) mod 6
C26_Witness ==
    /\ EnhanceDone
    /\ NoSummary(enhIn)
    /\ RoleOf(enhIn) = <<"D", "e", "v", "e", "l", "o", "p", "e", "r">>
    /\ Len(SkillsOf(enhOut)) = 1
    /\ enhOut.summary = <<"R", "e", "s", "u", "l", "t", "s", "-", "d", "r", "i", "v", "e", "n", " ", "D", "e", "v", "e", "l", "o", "p", "e", "r", " ", "w", "i", "t", "h", " ", "s", "t", "r", "e", "n", "g", "t", "h", "s", " ", "i", "n", " ", "R", "e", "a", "c", "t", ".", " ", "P", "r", "o", "v", "e", "n", " ", "a", "b", "i", "l", "i", "t", "y", " ", "t", "o", " ", "i", "m", "p", "r", "o", "v", "e", " ", "u", "s", "e", "r", " ", "e", "x", "p", "e", "r", "i", "e", "n", "c", "e", ".">>

\* C27: a draft that has a summary gets that summary back with its
\* whitespace runs collapsed to single spaces, trimmed and cut to 350
\* characters; the synthesized sentence never takes its place.
C27_ExistingSummaryKept ==
    EnhanceDone /\ ~NoSummary(enhIn) =>
        /\ enhOut.summary = Normalized(enhIn.summary)
        /\ ~StartsWith(enhOut.summary, <<"R", "e", "s", "u", "l", "t", "s", "-", "d", "r", "i", "v", "e", "n", " ">>)

\* a summary with runs of blanks came back collapsed and trimmed
C27_Witness ==
    /\ EnhanceDone
    /\ "summary" \in DOMAIN enhIn
    /\ enhIn.summary = <<" ", "S", "e", "n", "i", "o", "r", " ", " ", " ", "d", "e", "v", " ">>
    /\ enhOut.summary = <<"S", "e", "n", "i", "o", "r", " ", "d", "e", "v">>

EnhanceFinished == enhOut # NoValue \/ enhRaised

\* C20: enhanceResume does not raise for a draft whose fields are empty or
\* left out (no skills, no workExperience, no summary, work entries without
\* description), and a work entry whose description is empty or left out
\* gets an empty description in the output.
C20_TotalOnSparseDrafts ==
    EnhanceFinished =>
        /\ ~enhRaised
        /\ \A k \in 1..Len(WorkOf(enhIn)) :
               DescriptionOf(WorkOf(enhIn)[k]) = <<>> =>
                   /\ "description" \in DOMAIN WorkOf(enhOut)[k]
                   /\ WorkOf(enhOut)[k].description = <<>>

\* a draft with nothing but a work entry without description was enhanced
C20_Witness ==
    /\ EnhanceFinished
    /\ enhIn = [workExperience |-> <<[id |-> 1]>>]
    /\ enhOut # NoValue
    /\ enhOut.workExperience[1].description = <<>>

(***************************************************************************)
(* Properties of the generation handlers (checked under SpecGenerate)      *)
(***************************************************************************)
RequestInFlight == generateCall # NoValue

\* C3: every generation request, sent by handleGenerate or handlePrintHtml,
\* carries data = enhanceResume(draft) when the draft's aiEnhancement is on
\* and data = the draft when it is off.
C3_RequestDataFollowsToggle ==
    RequestInFlight =>
        generateCall.request.body.data =
            IF generateCall.resumeData.aiEnhancement
            THEN enhanceResume(generateCall.resumeData)
            ELSE generateCall.resumeData

\* C7: the template of a generation request is the first non-empty value of
\* draft.template, the last-used template, the first catalog entry and
\* "modern.tex", in each of the four cases.
C7_TemplatePrecedence ==
    RequestInFlight =>
        LET sent == generateCall.request.body.template
            draftTemplate == generateCall.resumeData.template
            lastUsed == generateCall.lastUsedTemplate
            catalogFirst == IF Len(generateCall.templates) > 0
                            THEN generateCall.templates[1]
                            ELSE ""
        IN  /\ draftTemplate # "" => sent = draftTemplate
            /\ draftTemplate = "" /\ lastUsed # "" => sent = lastUsed
            /\ draftTemplate = "" /\ lastUsed = "" /\ catalogFirst # "" => sent = catalogFirst
            /\ draftTemplate = "" /\ lastUsed = "" /\ catalogFirst = "" => sent = "modern.tex"

\* a request sent with no draft template, a last-used template and a
\* loaded catalog whose first entry is another template
C7_Witness ==
    /\ RequestInFlight
    /\ generateCall.resumeData.template = ""
    /\ generateCall.lastUsedTemplate = TemplateB
    /\ Len(generateCall.templates) > 0
    /\ generateCall.templates[1] = TemplateA
    /\ generateCall.request.body.template = TemplateB

\* a step of a preview, download or print operation
GenerationStep ==
    \/ generateCall' # generateCall
    \/ generateDone' # generateDone
    \/ generating' # generating
    \/ htmlPreview' # htmlPreview
    \/ printed' # printed

\* C8: no step of a preview, download or print operation changes the stored
\* draft, with the enhancement on or off; the draft changes only by edits
\* and template selection.
C8_GenerationKeepsDraft ==
    [][GenerationStep => resumeData' = resumeData]_vars

\* an enhanced preview was generated and the draft still holds the
\* duplicate skills and its own summary
C8_Witness ==
    /\ generateDone # NoValue
    /\ generateDone.flow = "generate"
    /\ generateDone.toast.title = "Preview ready"
    /\ generateDone.request.body.data # resumeData
    /\ resumeData.aiEnhancement
    /\ resumeData.skills = FixedSkills

GenerateFinished == generateDone # NoValue

\* a step that sends a generation request
RequestSent == generateCall' # generateCall /\ generateCall' # NoValue

\* C30: at most one generation request is in flight at any time: a request
\* is sent only while none is outstanding, and `generating` is non-null for
\* the whole time a request is outstanding.
C30_OneGenerationInFlight ==
    /\ [](RequestInFlight => generating # "null")
    /\ [][RequestSent => ~RequestInFlight /\ generating = "null"]_vars

\* a print request is outstanding, with no preview cached
C30_Witness ==
    /\ RequestInFlight
    /\ generateCall.flow = "print"
    /\ generating = "html"
    /\ htmlPreview = ""

\* C29: after every preview, download or print operation, failed or not,
\* `generating` eventually returns to null, and after every upload
\* `uploading` eventually returns to false.
C29_FlagsReturn ==
    /\ (generating # "null") ~> (generating = "null")
    /\ uploading ~> ~uploading

\* a print whose request failed and an upload whose request failed have both
\* ended with their flags back
C29_Witness ==
    /\ generateDone # NoValue
    /\ generateDone.flow = "print"
    /\ generateDone.toast.title = "Print failed"
    /\ generating = "null"
    /\ uploadDone # NoValue
    /\ uploadDone.toast.title = "Upload failed"
    /\ ~uploading

Succeeded(resp) == resp.kind = "http" /\ resp.ok

ServiceError(resp) == resp.kind = "http" /\ ~resp.ok

\* C13: what generateResume gives its caller is the body of the Rendering
\* Service's answer, unchanged: as text for an html request (the preview
\* state holds exactly that text) and as a binary payload for a pdf request
\* (the download holds exactly those bytes).
C13_BodyReturnedVerbatim ==
    GenerateFinished /\ Succeeded(generateDone.response) =>
        LET format == generateDone.request.body.format
            body == generateDone.response.body
        IN  /\ format = "html" => htmlPreview = body
            /\ format = "html" /\ generateDone.flow = "generate" =>
                   /\ generateDone.toast.title = "Preview ready"
                   /\ generateDone.download = NoValue
            /\ format = "pdf" =>
                   /\ generateDone.download = [name |-> "resume.pdf", blob |-> body]
                   /\ generateDone.toast.title = "PDF generated"

\* an html request answered with <div>OK</div> gave exactly that text
C13_Witness ==
    /\ GenerateFinished
    /\ generateDone.flow = "generate"
    /\ generateDone.request.body.format = "html"
    /\ Succeeded(generateDone.response)
    /\ generateDone.response.body = "<div>OK</div>"
    /\ htmlPreview = "<div>OK</div>"

\* the step in which a generation request is answered
GenerationAnswered == generateCall # NoValue /\ generateDone' # NoValue

\* C14: a generation request answered with a non-success status ends in a
\* generation error whose message holds the status code and the body text
\* (the status text where the body is empty); the answer to a generation
\* request, success or failure, is never followed by another request of
\* the same call.
C14_ServiceErrorRaisedOnce ==
    [][GenerationAnswered =>
          LET resp == generateDone'.response
          IN  /\ generateCall' = NoValue
              /\ generating' = "null"
              /\ generateDone'.request = generateCall.request
              /\ ServiceError(resp) =>
                     /\ generateDone'.toast.title \in {"Generation failed", "Print failed"}
                     /\ generateDone'.toast.description =
                            <<"Generation", resp.status,
                              IF resp.text # "" THEN resp.text ELSE StatusText>>
                     /\ htmlPreview' = htmlPreview
                     /\ printed' = printed
                     /\ generateDone'.download = NoValue]_vars

\* a preview request was answered 500 with the body "boom"
C14_Witness ==
    /\ GenerateFinished
    /\ generateDone.flow = "generate"
    /\ ServiceError(generateDone.response)
    /\ generateDone.response.text = "boom"
    /\ generateDone.toast = Toast("Generation failed", <<"Generation", 500, "boom">>)
    /\ generateCall = NoValue

\* C15: the print flow sends a generation request only when no HTML preview
\* is cached, and then it is one html request whose result is cached; with
\* a preview cached it sends no request and the document it writes embeds
\* exactly the cached HTML.
C15_PrintUsesCachedPreview ==
    [][/\ generateCall = NoValue /\ generateCall' # NoValue /\ generateCall'.flow = "print" =>
             /\ htmlPreview = ""
             /\ generateCall'.request.body.format = "html"
             /\ printed' = printed
       /\ generateCall = NoValue /\ printed' # printed =>
             /\ htmlPreview # ""
             /\ generateCall' = NoValue
             /\ printed' = Printable(htmlPreview)
             /\ htmlPreview' = htmlPreview
       /\ generateCall # NoValue /\ generateCall.flow = "print" /\ generateDone' # NoValue
             /\ Succeeded(generateDone'.response) =>
             /\ generateCall' = NoValue
             /\ htmlPreview' = generateDone'.response.body
             /\ printed' # printed => printed' = Printable(generateDone'.response.body)]_vars

\* a preview cached by the preview operation was printed without a request
C15_Witness ==
    /\ GenerateFinished
    /\ generateDone.flow = "generate"
    /\ htmlPreview = "<div>v2</div>"
    /\ printed = Printable("<div>v2</div>")
    /\ generateCall = NoValue

(***************************************************************************)
(* Properties of the upload handlers (checked under SpecUpload)            *)
(***************************************************************************)
\* the step that merges an extraction result into the draft
UploadMerged ==
    /\ uploadCall # NoValue
    /\ uploadDone' # NoValue
    /\ uploadDone'.toast.title \in {"Resume uploaded", "Parsed from path"}

\* C6: after a successful upload every top-level field present in `parsed`
\* has the parsed value in the draft, and every field absent from `parsed`
\* keeps the value it had in the draft.
C6_ShallowMerge ==
    [][UploadMerged =>
          LET parsed == uploadDone'.response.json.parsed
          IN  \A f \in DOMAIN resumeData :
                 IF f \in DOMAIN parsed
                 THEN resumeData'[f] = parsed[f]
                 ELSE resumeData'[f] = resumeData[f]]_vars

\* C28: when the draft is edited while an upload is in flight, the merge is
\* applied to the draft as it is when the response arrives: every top-level
\* field absent from `parsed` keeps the value of the latest edit.
C28_MergeOntoLatestDraft ==
    [][UploadMerged =>
          \A f \in DOMAIN resumeData \ DOMAIN uploadDone'.response.json.parsed :
             resumeData'[f] = resumeData[f]]_vars

UploadFinished == uploadDone # NoValue

AnsweredJson(resp) == resp.kind = "http" /\ resp.ok /\ resp.validJson

ParsedAbsent(resp) == AnsweredJson(resp) /\ ~resp.json.hasParsed

ParsedEmpty(resp) ==
    AnsweredJson(resp) /\ resp.json.hasParsed /\ DOMAIN resp.json.parsed = {}

\* the outcome raised when the request itself fails
TransportFailureTitle(kind) == IF kind = "file" THEN "Upload failed" ELSE "Path parse failed"

NoUsableDataTitles == {"No data found", "Path parse error"}

AttemptedUploadUrl(kind) ==
    IF kind = "file" THEN "http://localhost:8000/upload_resume"
    ELSE "http://localhost:8000/upload_resume_path"

Names(message, url) == \E i \in 1..Len(message) : message[i] = url

\* C22: when the collaborator is unreachable, the error an operation that
\* calls it surfaces (upload by file, upload by path, generate) has a
\* message that names the URL that was attempted.
C22_UnreachableNamesUrl ==
    /\ UploadFinished /\ uploadDone.response.kind = "reject" =>
           /\ uploadDone.toast.title = TransportFailureTitle(uploadDone.kind)
           /\ Names(uploadDone.toast.description, AttemptedUploadUrl(uploadDone.kind))
    /\ GenerateFinished /\ generateDone.response.kind = "reject" =>
           /\ generateDone.toast.title \in {"Generation failed", "Print failed"}
           /\ Names(generateDone.toast.description, "http://localhost:8000/generate_resume")

(***************************************************************************)
(* Properties of the MCP tool-call handler (checked under SpecAdapter)     *)
(***************************************************************************)
CallDone == adPc = "done"

Answered == adResponse # NoValue /\ adResponse.kind = "http"

IsErrorResult(r) == "isError" \in DOMAIN r /\ r.isError = TRUE

\* C4: a tool call whose backend request is answered with a non-success
\* HTTP status returns a result tagged isError: true.
C4_BackendFailureIsError ==
    CallDone /\ Answered /\ ~adResponse.ok =>
        adResult.kind = "return" /\ IsErrorResult(adResult.result)

KnownTools == {ListTemplatesTool, ExtractResumeDataTool, GenerateResumeHtmlTool,
               GenerateResumeTool}

MissingArguments(call) ==
    \/ /\ call.name = ExtractResumeDataTool
       /\ (~call.hasArgs \/ "file_path" \notin DOMAIN call.args
              \/ call.args.file_path = <<>>)
    \/ /\ call.name \in {GenerateResumeHtmlTool, GenerateResumeTool}
       /\ (~call.hasArgs \/ "resume_data" \notin DOMAIN call.args
              \/ call.args.resume_data = JsNull)

UnknownTool(call) == call.name \notin KnownTools

MissingFile(call) ==
    /\ call.name = ExtractResumeDataTool
    /\ ~MissingArguments(call)
    /\ call.args.file_path \notin FileSystem

BackendUnreachable == adResponse # NoValue /\ adResponse.kind = "reject"

UnparseableResponse ==
    /\ Answered
    /\ adCall.name \in {ListTemplatesTool, ExtractResumeDataTool}
    /\ adResponse.body # <<123, 125>>

ErrorPrefix == <<"E", "r", "r", "o", "r", ":", " ">>

\* C5: every tool call gives back a result envelope with one text item and
\* no exception leaves the handler; a call that fails (missing arguments,
\* unknown tool, missing file, unreachable backend, unparseable response)
\* gives the text "Error: <message>" and isError: true.
C5_FailuresBecomeErrorResults ==
    CallDone =>
        /\ adResult.kind = "return"
        /\ Len(adResult.result.content) = 1
        /\ adResult.result.content[1].type = "text"
        /\ (MissingArguments(adCall) \/ UnknownTool(adCall) \/ MissingFile(adCall)
               \/ BackendUnreachable \/ UnparseableResponse) =>
              /\ IsErrorResult(adResult.result)
              /\ StartsWith(adResult.result.content[1].text, ErrorPrefix)
        /\ UnknownTool(adCall) =>
              adResult.result.content[1].text =
                 ErrorPrefix \o <<"U", "n", "k", "n", "o", "w", "n", " ", "t", "o", "o", "l", ":", " ">> \o adCall.name
        /\ MissingFile(adCall) =>
              adResult.result.content[1].text =
                 ErrorPrefix \o <<"f", "i", "l", "e", " ", "n", "o", "t", " ", "f", "o", "u", "n", "d", ":", " ">> \o adCall.args.file_path

\* a call whose backend answer was no JSON ended as an error result
C5_Witness ==
    /\ CallDone
    /\ UnparseableResponse
    /\ adResult.kind = "return"
    /\ IsErrorResult(adResult.result)

\* C12: an operation whose required input is missing sends no request: the
\* page sends an upload request only for a chosen file or a path that is not
\* blank, and the tool-call handler answers a call without file_path
\* (extract_resume_data) or without resume_data (generate_resume_html,
\* generate_resume) with an error result and sends no backend request.
C12_MissingInputSendsNothing ==
    [][/\ uploadCall = NoValue /\ uploadCall' # NoValue =>
             /\ uploadCall'.kind = "file" => uploadCall'.request.body.file # "none"
             /\ uploadCall'.kind = "path" =>
                    /\ \E i \in 1..Len(localPath) : localPath[i] \notin Whitespace
                    /\ uploadCall'.request.body.file_path # <<>>
       /\ adRequest = NoValue /\ adRequest' # NoValue => ~MissingArguments(adCall')
       /\ adCall = NoValue /\ adCall' # NoValue /\ MissingArguments(adCall') =>
             /\ adRequest' = NoValue
             /\ adPc' = "done"
             /\ adResult'.kind = "return"
             /\ IsErrorResult(adResult'.result)]_vars

\* a generate_resume call without resume_data ended as an error with no
\* request sent, while the page holds a blank path and has sent nothing
C12_Witness ==
    /\ CallDone
    /\ adCall.name = GenerateResumeTool
    /\ MissingArguments(adCall)
    /\ adRequest = NoValue
    /\ localPath = <<" ">>
    /\ uploadCall = NoValue
    /\ ~uploading

\* C11: extract_resume_data called with a path that is not on the file
\* system gives an error result and sends no request to the backend; no
\* extraction request is ever sent for a path that does not exist.
C11_MissingFileSendsNothing ==
    /\ CallDone /\ MissingFile(adCall) =>
           /\ adResult.kind = "return"
           /\ IsErrorResult(adResult.result)
           /\ adRequest = NoValue
           /\ adResponse = NoValue
    /\ adRequest # NoValue /\ adCall.name = ExtractResumeDataTool =>
           adCall.args.file_path \in FileSystem

\* a call for a path that does not exist ended as an error result with no
\* request sent
C11_Witness ==
    /\ CallDone
    /\ MissingFile(adCall)
    /\ adCall.args.file_path = <<"/", "g", "o", "n", "e", ".", "p", "d", "f">>
    /\ IsErrorResult(adResult.result)
    /\ adRequest = NoValue

ExtractionRequested ==
    /\ adRequest # NoValue
    /\ adCall # NoValue
    /\ adCall.name = ExtractResumeDataTool

\* C21 as stated: extract_resume_data, for an existing path, sends the path
\* to the Extraction Service as the JSON field file_path on POST
\* /upload_resume_path, the call uploadResumeByPath makes.
C21_ExtractSendsPathAsJson ==
    ExtractionRequested =>
        /\ adRequest.method = "POST"
        /\ adRequest.url.path = "/upload_resume_path"
        /\ DOMAIN adRequest.body = {"file_path"}
        /\ adRequest.body.file_path = adCall.args.file_path

\* C21 amended: extract_resume_data, for an existing path, sends the bytes
\* of the file at that path as the multipart part `file` on POST
\* /upload_resume, the call uploadResume makes; the path itself is not sent.
C21_ExtractUploadsFile ==
    ExtractionRequested =>
        /\ adRequest.method = "POST"
        /\ adRequest.url = [base |-> FASTAPI_BASE_URL, path |-> "/upload_resume"]
        /\ DOMAIN adRequest.body = {"file"}
        /\ adRequest.body.file = [contentsOf |-> adCall.args.file_path]
        /\ adCall.args.file_path \in FileSystem

\* the request of an extract_resume_data call for /cv.pdf is in flight
C21_Witness ==
    /\ ExtractionRequested
    /\ adPc = "awaitFetch"
    /\ adCall.args.file_path = <<"/", "c", "v", ".", "p", "d", "f">>
    /\ adRequest.url.path = "/upload_resume"

GenerateToolAnswered ==
    /\ CallDone
    /\ Answered
    /\ adCall.name = GenerateResumeTool

\* the format argument of a call, none when it is left out or empty
FormatArgument(call) ==
    IF "format" \in DOMAIN call.args THEN call.args.format ELSE <<>>

PdfSpellings == { <<"p", "d", "f">>, <<"P", "D", "F">> }

\* C23: generate_resume requests format 'html' when the format argument is
\* absent, takes the pdf branch for 'pdf' in any letter case, and for every
\* other format gives back the response body as text without the
\* PDF_BASE64 marker in front.
C23_FormatDefaultAndCase ==
    GenerateToolAnswered =>
        LET given == FormatArgument(adCall)
            text == adResult.result.content[1].text
        IN  /\ given = <<>> => adRequest.body.format = <<"h", "t", "m", "l">>
            /\ given \in PdfSpellings =>
                   /\ adRequest.body.format = <<"p", "d", "f">>
                   /\ StartsWith(text, PdfMarker)
            /\ given \notin PdfSpellings =>
                   /\ text = ResponseText(adResponse.body)
                   /\ ~StartsWith(text, PdfMarker)

\* a call with format 'PDF' came back with the PDF_BASE64 marker
C23_Witness ==
    /\ GenerateToolAnswered
    /\ FormatArgument(adCall) = <<"P", "D", "F">>
    /\ StartsWith(adResult.result.content[1].text, PdfMarker)

\* RFC 4648 decoding of a padded base64 text
Sextet(c) == (CHOOSE i \in 1..64 : Base64Alphabet[i] = c) - 1

Base64DecodeGroup(q) ==
    LET s1 == Sextet(q[1])
        s2 == Sextet(q[2])
        s3 == IF q[3] = "=" THEN 0 ELSE Sextet(q[3])
        s4 == IF q[4] = "=" THEN 0 ELSE Sextet(q[4])
        b1 == s1 * 4 + (s2 \div 16)
        b2 == (s2 % 16) * 16 + (s3 \div 4)
        b3 == (s3 % 4) * 64 + s4
    IN  IF q[3] = "=" THEN <<b1>>
        ELSE IF q[4] = "=" THEN <<b1, b2>>
        ELSE <<b1, b2, b3>>

RECURSIVE Base64Decode(_)
Base64Decode(text) ==
    IF text = <<>> THEN <<>>
    ELSE Base64DecodeGroup(SubSeq(text, 1, 4)) \o Base64Decode(SubSeq(text, 5, Len(text)))

WellFormedBase64(text) ==
    /\ Len(text) % 4 = 0
    /\ \A i \in 1..Len(text) :
          \/ text[i] \in Range(Base64Alphabet)
          \/ text[i] = "=" /\ i > Len(text) - 2 /\ (i = Len(text) \/ text[i + 1] = "=")

PdfRequested ==
    /\ adCall.name = GenerateResumeTool
    /\ adCall.hasArgs
    /\ "format" \in DOMAIN adCall.args
    /\ adCall.args.format = <<"p", "d", "f">>

\* C10: generate_resume with format 'pdf' gives a text that starts with
\* "PDF_BASE64:" and whose remainder is base64 that decodes to exactly the
\* bytes of the backend answer, whatever those bytes are.
C10_PdfBase64RoundTrip ==
    CallDone /\ Answered /\ PdfRequested =>
        LET text == adResult.result.content[1].text
            rest == SubSeq(text, Len(PdfMarker) + 1, Len(text))
        IN  /\ adResult.kind = "return"
            /\ StartsWith(text, <<"P", "D", "F", "_", "B", "A", "S", "E", "6", "4", ":">>)
            /\ WellFormedBase64(rest)
            /\ Base64Decode(rest) = adResponse.body

\* the answer %PDF came back as PDF_BASE64:JVBERg==
C10_Witness ==
    /\ CallDone
    /\ Answered
    /\ PdfRequested
    /\ adResponse.body = <<37, 80, 68, 70>>
    /\ adResult.result.content[1].text = <<"P", "D", "F", "_", "B", "A", "S", "E", "6", "4", ":", "J", "V", "B", "E", "R", "g", "=", "=">>

====
